---- MODULE Spec2Model ----
(***************************************************************************)
(* Verification model of the Pseudocodigo compiler front end and runner:   *)
(*   - buildMermaid      (flow-graph builder, pseudocode/diagram.ts)       *)
(*   - parsePseudocodeText (structural parser, pseudocode/parser.ts)       *)
(*   - executeProgram / submitInput (console runner, main.ts)              *)
(*   - the counted loop and the index translation of the two emitters      *)
(*     (pseudocode/c-emitter.ts, pseudocode/execution.ts, utils.ts)        *)
(* Each subsystem has its own specification over the shared variables; the *)
(* variables of the other subsystems stay at their idle values.            *)
(***************************************************************************)
EXTENDS Integers, Sequences, FiniteSets, TLC

\* ---------------------------------------------------------------- bounds
\* Number of statements of the main body fed to buildMermaid.
MaxBody == 5
\* Number of lines of the source text fed to parsePseudocodeText.
MaxLines == 4
\* Runs started, reads per run, writes between two suspension points.
MaxRuns == 2
MaxReads == 2
MaxWrites == 1
\* Largest declared array size.
MaxSize == 4
\* Largest value of a bound of a counted loop.
MaxLoopBound == 3
\* Largest number of runs of the body of a repetir loop that are followed.
MaxRepeat == 3
\* Largest value the variable of its condition takes.
MaxValue == 2
\* Largest number of statements of the scope body that is emitted and run.
MaxStmts == 3
\* Largest number of functions handed to buildScopeVars.
MaxFns == 2
\* Largest number of statements in all the bodies handed to it.
MaxScopeStmts == 3
\* Longest argument text of an escribir statement.
MaxArgLen == 4
\* Longest text analysed twice (at most MaxLines).
MaxAgainLines == 3
\* Longest node label that is sanitized.
MaxLabelLen == 3
\* Longest run of tokens that follows the first word of a classified line.
MaxTail == 4
\* Number of lines scanned with any leading white space, and the most
\* spaces that lead one of them.
MaxIndentLines == 3
MaxSpaces == 4
\* Longest condition text of a mientras loop, in tokens.
MaxCondLen == 3
\* Values typed into the console input.
InputValues == {"a", "b"}

\* "undefined" / null for optional ids.
None == -1

VARIABLES
  \* buildMermaid
  gpc,          \* "off" | "scan" | "done"
  nodes,        \* nodes[k+1] is the declaration of node N<k>
  edges,        \* emitted edges, in order
  current,      \* id of the node the next statement chains from
  siStack,      \* open conditional contexts
  loopStack,    \* open loop contexts
  gOpen,        \* openers of the body read so far that are still open
  gLen,         \* number of body statements consumed
  \* parsePseudocodeText
  ppc,          \* "off" | "scan" | "done"
  lineIdx,      \* index of the next line of the source (0-based)
  inMain,
  currentFunction,  \* None, or the position in functions of the active one
  functions,
  mainBody,
  blockStack,
  indentLevel,
  diagnostics,
  hasInicio,    \* some line read so far is exactly `inicio`
  srcOpen,      \* the source read so far: openers not yet closed
  srcOk,        \* the source read so far: no closer without its opener
  \* console runner (executeProgram, submitInput, clear button)
  rpc,              \* "off" | "on"
  runnerPromise,    \* None, or the run whose promise chain is stored
  waitingResolver,  \* None, or the read whose resolve function is stored
  console,          \* lines of the console output element
  runs,             \* runs[r]: "suspended" or "settled"
  reads,            \* promises made by io.read: run, state, value
  lastEvent,        \* handler that ran last: "none" | "run" | "submit" | "clear"
  lastOutcome,      \* what it led to
  \* one statement with an array access, through both emitters
  ipc,          \* "off" | "src" | "emitted" | "done"
  iSize,        \* declared size N of the array
  iIndex,       \* value of the pseudocode index
  iForm,        \* the index is written as a "literal" or as the "variable" i
  iCtx,         \* statement the access occurs in
  iEmitter,     \* "c" | "js"
  emitted,      \* tokens of the emitted statement
  elem,         \* element the emitted access addresses when run
  \* a counted loop, emitted by both emitters and run
  lpc,          \* per emitter: "off" | "init" | "test" | "body" | "done"
  loopS,        \* value of the start bound
  loopE,        \* value of the end bound
  lv,           \* per emitter: the loop variable
  lvals,        \* per emitter: values of v seen by the body, in order
  lelems,       \* per emitter: elements addressed by name[v] in the body
  \* repetir / <body> / hasta(i > K), emitted by one emitter and run
  qpc,          \* "off" | "src" | "run" | "done"
  qEmitter,     \* "c" | "js"
  qBody,        \* the body statement: "leer" (of i) or "escribir" (of i)
  qK,           \* the literal K of the written condition i > K
  qi,           \* value of the variable i
  qCode,        \* emitted lines, each a sequence of tokens
  qLine,        \* index in qCode of the line to run next
  qBodies,      \* number of times the body has run
  qEvals,       \* value of the written condition at each evaluation, in order
  \* one scope body through collectScopeVars and both emitters, then the instrumented code run
  tpc,          \* "off" | "src" | "run" | "done" | "threw" | "nocompile"
  tScope,       \* scope of the body: "main" or "fn:f"
  tBody,        \* its statements (BodyLine records)
  tCode,        \* lines buildJsCode emits for the scope
  tCCode,       \* lines buildCCode emits for the scope
  tLine,        \* index in tCode of the line to run next
  tEnv,         \* run-time bindings of the scope
  tLog,         \* executed statements and trace calls, in order
  \* buildScopeVars
  vpc,          \* "off" | "src" | "built"
  vFns,         \* the functions handed to buildScopeVars
  vMain,        \* the main body handed to it
  vOut,         \* the ScopeVars it returned
  \* parseArguments
  apc,          \* "off" | "scan" | "done"
  aText,        \* the argument text, one character per element
  aI,           \* number of characters consumed
  aCurrent,     \* current
  aInString,    \* inString
  aEscaped,     \* escaped
  aArgs,        \* args
  \* array declarations through both emitters
  dpc,          \* "off" | "src"
  dType,        \* type word of the declaration, lower case
  dName,        \* declared name
  dSize,        \* declared size
  dC,           \* lines buildCCode emitted for it
  dJs,          \* lines buildJsCode emitted for it
  \* analyzePseudocode called twice on one text
  ypc,          \* "off" | "run" | "done"
  yText,        \* the source text, one line kind per line
  yResults,     \* what each finished call returned
  yNodeId,      \* nodeId as the last buildMermaid left it
  yOutIndex,    \* outIndex as the last emitJsBody of the main section left it
  \* sanitizeMermaidLabel
  spc,          \* number of replace passes done; None when off
  sLabel,       \* the label, one character per element
  sText,        \* the text after the passes done so far
  \* the statement recognizers, as each consumer applies them
  kStep,        \* number of consumers that classified the line; None when off
  kLine,        \* the trimmed statement line, one token per element
  kSeen,        \* the kind each consumer saw
  \* the guard of a mientras loop in the instrumented code
  wpc,          \* "off" | "src" | "emitted"
  wCond,        \* condition text of mientras(...), as tokens
  wGuard        \* the emitted loop header

gvars == <<gpc, nodes, edges, current, siStack, loopStack, gOpen, gLen>>

pvars == <<ppc, lineIdx, inMain, currentFunction, functions, mainBody,
           blockStack, indentLevel, diagnostics, hasInicio, srcOpen, srcOk>>

ivars == <<ipc, iSize, iIndex, iForm, iCtx, iEmitter, emitted, elem>>

lvars == <<lpc, loopS, loopE, lv, lvals, lelems>>

rvars == <<rpc, runnerPromise, waitingResolver, console, runs, reads,
           lastEvent, lastOutcome>>

qvars == <<qpc, qEmitter, qBody, qK, qi, qCode, qLine, qBodies, qEvals>>

tvars == <<tpc, tScope, tBody, tCode, tCCode, tLine, tEnv, tLog>>

vvars == <<vpc, vFns, vMain, vOut>>

avars == <<apc, aText, aI, aCurrent, aInString, aEscaped, aArgs>>

dvars == <<dpc, dType, dName, dSize, dC, dJs>>

yvars == <<ypc, yText, yResults, yNodeId, yOutIndex>>

svars == <<spc, sLabel, sText>>

kvars == <<kStep, kLine, kSeen>>

wvars == <<wpc, wCond, wGuard>>

vars == <<gpc, nodes, edges, current, siStack, loopStack, gOpen, gLen,
          ppc, lineIdx, inMain, currentFunction, functions, mainBody,
          blockStack, indentLevel, diagnostics, hasInicio, srcOpen, srcOk,
          rpc, runnerPromise, waitingResolver, console, runs, reads,
          lastEvent, lastOutcome,
          ipc, iSize, iIndex, iForm, iCtx, iEmitter, emitted, elem,
          lpc, loopS, loopE, lv, lvals, lelems,
          qpc, qEmitter, qBody, qK, qi, qCode, qLine, qBodies, qEvals,
          tpc, tScope, tBody, tCode, tCCode, tLine, tEnv, tLog,
          vpc, vFns, vMain, vOut,
          apc, aText, aI, aCurrent, aInString, aEscaped, aArgs,
          dpc, dType, dName, dSize, dC, dJs,
          ypc, yText, yResults, yNodeId, yOutIndex,
          spc, sLabel, sText,
          kStep, kLine, kSeen,
          wpc, wCond, wGuard>>

\* what a step of one subsystem leaves alone
GOthers == UNCHANGED <<pvars, rvars, ivars, lvars, qvars, tvars, vvars, avars, dvars, yvars, svars, kvars, wvars>>
POthers == UNCHANGED <<gvars, rvars, ivars, lvars, qvars, tvars, vvars, avars, dvars, yvars, svars, kvars, wvars>>
ROthers == UNCHANGED <<gvars, pvars, ivars, lvars, qvars, tvars, vvars, avars, dvars, yvars, svars, kvars, wvars>>
IOthers == UNCHANGED <<gvars, pvars, rvars, lvars, qvars, tvars, vvars, avars, dvars, yvars, svars, kvars, wvars>>
LOthers == UNCHANGED <<gvars, pvars, rvars, ivars, qvars, tvars, vvars, avars, dvars, yvars, svars, kvars, wvars>>
QOthers == UNCHANGED <<pvars, rvars, ivars, lvars, gvars, tvars, vvars, avars, dvars, yvars, svars, kvars, wvars>>
TOthers == UNCHANGED <<pvars, rvars, ivars, lvars, qvars, gvars, vvars, avars, dvars, yvars, svars, kvars, wvars>>
VOthers == UNCHANGED <<pvars, rvars, ivars, lvars, qvars, tvars, gvars, avars, dvars, yvars, svars, kvars, wvars>>
AOthers == UNCHANGED <<pvars, rvars, ivars, lvars, qvars, tvars, vvars, gvars, dvars, yvars, svars, kvars, wvars>>
DOthers == UNCHANGED <<pvars, rvars, ivars, lvars, qvars, tvars, vvars, avars, gvars, yvars, svars, kvars, wvars>>
YOthers == UNCHANGED <<pvars, rvars, ivars, lvars, qvars, tvars, vvars, avars, dvars, gvars, svars, kvars, wvars>>
SOthers == UNCHANGED <<pvars, rvars, ivars, lvars, qvars, tvars, vvars, avars, dvars, yvars, gvars, kvars, wvars>>
\* what a step of both the parser and the repeated analysis leaves alone
ZOthers == UNCHANGED <<gvars, rvars, ivars, lvars, qvars, tvars, vvars, avars, dvars, svars, kvars, wvars>>
KOthers == UNCHANGED <<pvars, rvars, ivars, lvars, qvars, tvars, vvars, avars, dvars, yvars, svars, gvars, wvars>>
WOthers == UNCHANGED <<pvars, rvars, ivars, lvars, qvars, tvars, vvars, avars, dvars, yvars, svars, kvars, gvars>>

\* ------------------------------------------------------------ buildMermaid

Last(s) == s[Len(s)]
Front(s) == SubSeq(s, 1, Len(s) - 1)
ReplaceLast(s, x) == [s EXCEPT ![Len(s)] = x]

\* addNode: the id handed out is the number of nodes declared so far.
addNode(ns, label, shape) == Append(ns, [label |-> label, shape |-> shape])
NewId(ns) == Len(ns)

\* connect: one emitted edge; label "" is the unlabeled form.
Edge(from, to, label) == [from |-> from, to |-> to, label |-> label]

\* entry of the branch that is being filled gets the node as its last node
SiMark(si, node) ==
  IF si.inElse THEN [si EXCEPT !.elseLast = node, !.elseHas = TRUE]
               ELSE [si EXCEPT !.thenLast = node, !.thenHas = TRUE]

\* connectNode, as a function of the builder state; yields the new
\* edges, current, siStack and loopStack.
ConnectNode(es, cur, sis, loops, node) ==
  LET hasLoop == loops # <<>>
      hasSi == sis # <<>>
  IN
  IF hasLoop /\ Last(loops).type # "repetir" /\ Last(loops).entryPending
  THEN LET loop == Last(loops)
       IN [edges |-> Append(es, Edge(loop.condId, node, "si")),
           current |-> node,
           siStack |-> sis,
           loopStack |-> ReplaceLast(loops,
              [loop EXCEPT !.entryPending = FALSE,
                           !.entryId = IF loop.entryId = None THEN node ELSE loop.entryId])]
  ELSE IF hasSi /\ Last(sis).entryPending
  THEN LET si == Last(sis)
       IN [edges |-> Append(es, Edge(si.condId, node, si.entryLabel)),
           current |-> node,
           siStack |-> ReplaceLast(sis, SiMark([si EXCEPT !.entryPending = FALSE], node)),
           loopStack |-> loops]
  ELSE [edges |-> Append(es, Edge(cur, node, "")),
        current |-> node,
        siStack |-> IF hasSi THEN ReplaceLast(sis, SiMark(Last(sis), node)) ELSE sis,
        loopStack |-> IF hasLoop /\ Last(loops).type = "repetir" /\ Last(loops).entryId = None
                      THEN ReplaceLast(loops, [Last(loops) EXCEPT !.entryId = node])
                      ELSE loops]

\* variant whose back-edge starts at the first node of the body
LoopCloseEdges_FromEntry(cur, loop) ==
  <<Edge(IF loop.entryId = None THEN loop.condId ELSE loop.entryId, loop.condId, ""),
    Edge(loop.condId, loop.afterId, "no")>>

\* variant that forgets the exit edge of the loop
LoopCloseEdges_NoExit(cur, loop) ==
  <<Edge(cur, loop.condId, "")>>

\* the two edges added when a pre-test loop is closed
LoopCloseEdges(cur, loop) ==
  <<Edge(cur, loop.condId, ""), Edge(loop.condId, loop.afterId, "no")>>

\* the three edges added by hasta(...)
HastaEdges(cur, condId, loop) ==
  <<Edge(cur, condId, ""),
    Edge(condId, IF loop.entryId = None THEN condId ELSE loop.entryId, "no"),
    Edge(condId, loop.afterId, "si")>>

\* the two edges added by finsi
FinsiEdges(si) ==
  << IF si.thenHas THEN Edge(si.thenLast, si.afterId, "")
                   ELSE Edge(si.condId, si.afterId, "si"),
     IF si.elseHas THEN Edge(si.elseLast, si.afterId, "")
                   ELSE Edge(si.condId, si.afterId, "no") >>

\* labels of the nodes made for statements that open or close nothing
PlainLabels == {"Leer", "Escribir", "Volver", "Llamar", "Otro"}

CanRead == gpc = "scan" /\ gLen < MaxBody

\* mientras(...) and para ... hacer: decision node, after-node, loop context
OpenPreTest(type, condLabel, afterLabel) ==
  /\ CanRead
  /\ GOthers
  /\ LET condId == NewId(nodes)
         ns1 == addNode(nodes, condLabel, "diamond")
         afterId == NewId(ns1)
         ns2 == addNode(ns1, afterLabel, "round")
         c == ConnectNode(edges, current, siStack, loopStack, condId)
     IN /\ nodes' = ns2
        /\ edges' = c.edges
        /\ siStack' = c.siStack
        /\ loopStack' = Append(c.loopStack,
              [type |-> type, condId |-> condId, afterId |-> afterId,
               entryPending |-> TRUE, entryId |-> None])
        /\ current' = condId
  /\ gOpen' = Append(gOpen, type)
  /\ gLen' = gLen + 1
  /\ UNCHANGED gpc

GMientras == CanRead /\ OpenPreTest("mientras", "Mientras", "Fin mientras")

GPara == CanRead /\ OpenPreTest("para", "Para", "Fin para")

\* finmientras / finpara: pop, then back-edge and exit edge if the kind matches
ClosePreTest(type) ==
  /\ CanRead
  /\ GOthers
  /\ gOpen # <<>> /\ Last(gOpen) = type
  /\ IF loopStack # <<>>
     THEN LET loop == Last(loopStack)
          IN /\ loopStack' = Front(loopStack)
             /\ IF loop.type = type
                THEN /\ edges' = edges \o LoopCloseEdges(current, loop)
                     /\ current' = loop.afterId
                ELSE UNCHANGED <<edges, current>>
     ELSE UNCHANGED <<loopStack, edges, current>>
  /\ gOpen' = Front(gOpen)
  /\ gLen' = gLen + 1
  /\ UNCHANGED <<gpc, nodes, siStack>>

GFinMientras == CanRead /\ ClosePreTest("mientras")

GFinPara == CanRead /\ ClosePreTest("para")

\* repetir: only the after-node
GRepetir ==
  /\ CanRead
  /\ GOthers
  /\ LET afterId == NewId(nodes)
     IN /\ nodes' = addNode(nodes, "Fin repetir", "round")
        /\ loopStack' = Append(loopStack,
              [type |-> "repetir", condId |-> None, afterId |-> afterId,
               entryPending |-> FALSE, entryId |-> None])
  /\ gOpen' = Append(gOpen, "repetir")
  /\ gLen' = gLen + 1
  /\ UNCHANGED <<gpc, edges, current, siStack>>

\* hasta(...): decision node after the body
GHasta ==
  /\ CanRead
  /\ GOthers
  /\ gOpen # <<>> /\ Last(gOpen) = "repetir"
  /\ IF loopStack # <<>>
     THEN LET loop == Last(loopStack)
          IN /\ loopStack' = Front(loopStack)
             /\ IF loop.type = "repetir"
                THEN LET condId == NewId(nodes)
                     IN /\ nodes' = addNode(nodes, "Hasta", "diamond")
                        /\ edges' = edges \o HastaEdges(current, condId, loop)
                        /\ current' = loop.afterId
                ELSE UNCHANGED <<nodes, edges, current>>
     ELSE UNCHANGED <<loopStack, nodes, edges, current>>
  /\ gOpen' = Front(gOpen)
  /\ gLen' = gLen + 1
  /\ UNCHANGED <<gpc, siStack>>

\* si ...: decision node, join node, conditional context
GSi ==
  /\ CanRead
  /\ GOthers
  /\ LET condId == NewId(nodes)
         ns1 == addNode(nodes, "Si", "diamond")
         afterId == NewId(ns1)
         ns2 == addNode(ns1, "Fin si", "round")
         c == ConnectNode(edges, current, siStack, loopStack, condId)
     IN /\ nodes' = ns2
        /\ edges' = c.edges
        /\ loopStack' = c.loopStack
        /\ siStack' = Append(c.siStack,
              [condId |-> condId, afterId |-> afterId, inElse |-> FALSE,
               entryPending |-> TRUE, entryLabel |-> "si",
               thenLast |-> condId, elseLast |-> condId,
               thenHas |-> FALSE, elseHas |-> FALSE])
        /\ current' = condId
  /\ gOpen' = Append(gOpen, "si")
  /\ gLen' = gLen + 1
  /\ UNCHANGED gpc

\* entonces produces nothing
GEntonces ==
  /\ CanRead
  /\ GOthers
  /\ gOpen # <<>> /\ Last(gOpen) = "si"
  /\ gLen' = gLen + 1
  /\ UNCHANGED <<gpc, nodes, edges, current, siStack, loopStack, gOpen>>

\* sino: switch the innermost conditional to its else branch
GSino ==
  /\ CanRead
  /\ GOthers
  /\ gOpen # <<>> /\ Last(gOpen) = "si"
  /\ IF siStack # <<>>
     THEN LET si == Last(siStack)
          IN /\ siStack' = ReplaceLast(siStack,
                   [si EXCEPT !.inElse = TRUE, !.entryPending = TRUE, !.entryLabel = "no"])
             /\ current' = si.condId
     ELSE UNCHANGED <<siStack, current>>
  /\ gOpen' = ReplaceLast(gOpen, "sino")
  /\ gLen' = gLen + 1
  /\ UNCHANGED <<gpc, nodes, edges, loopStack>>

\* finsi: pop the conditional and wire both branches to the join node
GFinsi ==
  /\ CanRead
  /\ GOthers
  /\ gOpen # <<>> /\ Last(gOpen) \in {"si", "sino"}
  /\ IF siStack # <<>>
     THEN LET si == Last(siStack)
          IN /\ siStack' = Front(siStack)
             /\ edges' = edges \o FinsiEdges(si)
             /\ current' = si.afterId
     ELSE UNCHANGED <<siStack, edges, current>>
  /\ gOpen' = Front(gOpen)
  /\ gLen' = gLen + 1
  /\ UNCHANGED <<gpc, nodes, loopStack>>

\* leer / escribir / volver / call / any other line: one process node
GPlain ==
  /\ CanRead
  /\ GOthers
  /\ \E label \in PlainLabels :
       LET node == NewId(nodes)
           c == ConnectNode(edges, current, siStack, loopStack, node)
       IN /\ nodes' = addNode(nodes, label, "rect")
          /\ edges' = c.edges
          /\ current' = c.current
          /\ siStack' = c.siStack
          /\ loopStack' = c.loopStack
  /\ gLen' = gLen + 1
  /\ UNCHANGED <<gpc, gOpen>>

\* after the last statement: the end node, chained from current
GFinish ==
  /\ gpc = "scan"
  /\ GOthers
  /\ gOpen = <<>>
  /\ LET endId == NewId(nodes)
     IN /\ nodes' = addNode(nodes, "Fin", "round")
        /\ edges' = Append(edges, Edge(current, endId, ""))
  /\ gpc' = "done"
  /\ UNCHANGED <<current, siStack, loopStack, gOpen, gLen>>

\* ------------------------------------------------------ parsePseudocodeText
\* A source line is described by the shape of its trimmed text (the first
\* branch of the scan it falls into), its leading spaces and whether its
\* leading whitespace holds a tab.
\*   "programa"    starts with `programa `
\*   "funcion"     starts with `funcion ` and parseFunctionHeader accepts it
\*   "funcionMal"  starts with `funcion ` and parseFunctionHeader rejects it
\*   "inicio", "finmientras", "finpara", "repetir", "entonces", "sino",
\*   "finsi", "fin", "volver"   the line is exactly that word
\*   "mientras", "para", "hasta", "si", "declArreglo"   parseMientras,
\*   parsePara, parseHasta, parseSi, parseArreglo match
\*   "arregloKw"   starts with `arreglo `
\*   "leer", "escribir"   start with that word and a space
\*   "llamada"     isCallLike
\*   "palabra"     starts with a word isKnownStatement accepts (`mientras`,
\*                 `hasta`, `para `, `entero `, ...) but no recognizer matches
\*                 it, e.g. `mientras x > 0` or `entero total`
\*   "otro"        none of the above

PlainKinds == {"leer", "escribir", "volver", "llamada", "palabra", "otro", "arregloKw"}

isKnownStatement_EveryLine(kind) == TRUE

isKnownStatement(kind) == kind \notin {"otro", "arregloKw"}

closesBlock(kind) == kind \in {"fin", "finmientras", "finpara", "hasta"}

Max0(n) == IF n < 0 THEN 0 ELSE n

\* variant in which `sino` is expected at the current level
expectedIndent_SinoAtLevel(kind, level) ==
  IF kind = "finsi" THEN Max0(level - 2)
  ELSE IF closesBlock(kind) THEN Max0(level - 1)
  ELSE level

expectedIndent(kind, level) ==
  IF kind = "finsi" THEN Max0(level - 2)
  ELSE IF kind = "sino" THEN Max0(level - 1)
  ELSE IF closesBlock(kind) THEN Max0(level - 1)
  ELSE level

Diag(idx, severity, message, n) ==
  [line |-> idx, severity |-> severity, message |-> message, n |-> n]

\* the diagnostics every non-blank line is checked for before its shape is
\* looked at
PreDiags(kind, sp, tb, idx, level) ==
  LET e == expectedIndent(kind, level)
  IN (IF tb THEN <<Diag(idx, "error", "La indentacion debe usar espacios", 0)>> ELSE <<>>)
     \o (IF sp # e * 2 THEN <<Diag(idx, "error", "Se esperaban espacios", e * 2)>> ELSE <<>>)
     \o (IF ~isKnownStatement(kind)
         THEN <<Diag(idx, "warning", "Linea no reconocida", 0)>> ELSE <<>>)
     \o (IF kind = "arregloKw"
         THEN <<Diag(idx, "error", "Sintaxis invalida de arreglo", 0)>> ELSE <<>>)

\* message of the error a closer reports when the popped frame is not its own
MismatchMessage(kind) ==
  CASE kind = "finmientras" -> "Hay un finmientras sin mientras"
    [] kind = "finpara" -> "Hay un finpara sin para"
    [] kind = "hasta" -> "Hay un hasta sin repetir"
    [] kind = "finsi" -> "Hay un finsi sin si"

\* variant in which hasta(...) looks for a `para` frame
OpenerOf_HastaPara(kind) ==
  CASE kind = "finmientras" -> "mientras"
    [] kind = "finpara" -> "para"
    [] kind = "hasta" -> "para"
    [] kind = "finsi" -> "si"

\* the frame kind a closer pops
OpenerOf(kind) ==
  CASE kind = "finmientras" -> "mientras"
    [] kind = "finpara" -> "para"
    [] kind = "hasta" -> "repetir"
    [] kind = "finsi" -> "si"

\* variant in which finsi lowers indentLevel by one, like the other closers
CloserDrop_AlwaysOne(kind) == 1

\* how far a matched closer lowers indentLevel
CloserDrop(kind) == IF kind = "finsi" THEN 2 ELSE 1

\* variant of endToken with the closers of the two loops swapped
endToken_Swapped(type) ==
  IF type \in {"funcion", "inicio"} THEN "fin"
  ELSE IF type = "mientras" THEN "finpara"
  ELSE IF type = "para" THEN "finmientras"
  ELSE IF type = "si" THEN "finsi"
  ELSE "hasta(...)"

endToken(type) ==
  IF type \in {"funcion", "inicio"} THEN "fin"
  ELSE IF type = "mientras" THEN "finmientras"
  ELSE IF type = "para" THEN "finpara"
  ELSE IF type = "si" THEN "finsi"
  ELSE "hasta(...)"

\* the parser state as one value, so that a line is a function on it
PState ==
  [inMain |-> inMain, currentFunction |-> currentFunction,
   functions |-> functions, mainBody |-> mainBody,
   blockStack |-> blockStack, indentLevel |-> indentLevel,
   diagnostics |-> diagnostics, hasInicio |-> hasInicio]

PushBody_BothScopes(st, kind, idx) ==
  LET e == [text |-> kind, line |-> idx + 1]
      f == IF st.currentFunction # None
           THEN [st EXCEPT !.functions[st.currentFunction].body = Append(@, e)]
           ELSE st
  IN IF st.inMain THEN [f EXCEPT !.mainBody = Append(@, e)] ELSE f

\* currentFunction.body.push, else mainBody.push when in main, else dropped
PushBody(st, kind, idx) ==
  IF st.currentFunction # None
  THEN [st EXCEPT !.functions[st.currentFunction].body =
            Append(@, [text |-> kind, line |-> idx + 1])]
  ELSE IF st.inMain
  THEN [st EXCEPT !.mainBody = Append(@, [text |-> kind, line |-> idx + 1])]
  ELSE st

PushFrame(st, type, idx) ==
  [st EXCEPT !.blockStack = Append(@, [type |-> type, line |-> idx])]

AddDiag(st, d) == [st EXCEPT !.diagnostics = Append(@, d)]

\* `last && last.type === <own opener>`
CloserMatches(kind, stack) ==
  stack # <<>> /\ Last(stack).type = OpenerOf(kind)

\* variant in which a mismatched closer still lowers indentLevel
CloseLine_DropsAnyway(st, kind, idx) ==
  LET popped == [st EXCEPT !.blockStack = IF @ = <<>> THEN @ ELSE Front(@),
                           !.indentLevel = Max0(@ - CloserDrop(kind))]
  IN IF ~CloserMatches(kind, st.blockStack)
     THEN AddDiag(popped, Diag(idx, "error", MismatchMessage(kind), 0))
     ELSE PushBody(popped, kind, idx)

\* finmientras, finpara, hasta(...), finsi
CloseLine(st, kind, idx) ==
  LET popped == [st EXCEPT !.blockStack = IF @ = <<>> THEN @ ELSE Front(@)]
  IN IF ~CloserMatches(kind, st.blockStack)
     THEN AddDiag(popped, Diag(idx, "error", MismatchMessage(kind), 0))
     ELSE PushBody([popped EXCEPT !.indentLevel = Max0(@ - CloserDrop(kind))], kind, idx)

\* variant in which a `fin` on the main frame leaves the in-main flag set
FinLine_MainStaysOpen(st, idx) ==
  LET popped == [st EXCEPT !.blockStack = IF @ = <<>> THEN @ ELSE Front(@)]
  IN IF st.blockStack = <<>>
     THEN AddDiag(popped, Diag(idx, "error", "Hay un fin sin bloque abierto", 0))
     ELSE LET last == Last(st.blockStack)
          IN IF last.type \notin {"funcion", "inicio"}
             THEN AddDiag(popped, Diag(idx, "error", "Bloque abierto con un cierre incorrecto", 0))
             ELSE [popped EXCEPT
                     !.indentLevel = Max0(@ - 1),
                     !.currentFunction = IF last.type = "funcion" THEN None ELSE @]

\* fin
FinLine(st, idx) ==
  LET popped == [st EXCEPT !.blockStack = IF @ = <<>> THEN @ ELSE Front(@)]
  IN IF st.blockStack = <<>>
     THEN AddDiag(popped, Diag(idx, "error", "Hay un fin sin bloque abierto", 0))
     ELSE LET last == Last(st.blockStack)
          IN IF last.type \notin {"funcion", "inicio"}
             THEN AddDiag(popped, Diag(idx, "error", "Bloque abierto con un cierre incorrecto", 0))
             ELSE [popped EXCEPT
                     !.indentLevel = Max0(@ - 1),
                     !.currentFunction = IF last.type = "funcion" THEN None ELSE @,
                     !.inMain = IF last.type = "inicio" THEN FALSE ELSE @]

\* entonces / sino
BranchLine(st, kind, idx) ==
  IF ~(\E k \in 1 .. Len(st.blockStack) : st.blockStack[k].type = "si")
  THEN AddDiag(st, Diag(idx, "error", "sin un si abierto", 0))
  ELSE PushBody([st EXCEPT !.indentLevel =
                    IF kind = "entonces" THEN @ + 1 ELSE Max0(@ - 1) + 1],
                kind, idx)

\* the body of lines.forEach for one non-blank line
ParseLine(st0, kind, sp, tb, idx) ==
  LET st == [st0 EXCEPT !.diagnostics =
                @ \o PreDiags(kind, sp, tb, idx, st0.indentLevel)]
  IN
  IF kind = "programa" THEN st
  ELSE IF kind \in {"funcion", "funcionMal"}
  THEN LET up == [st EXCEPT !.indentLevel = @ + 1]
       IN IF kind = "funcionMal"
          THEN AddDiag(up, Diag(idx, "error", "Encabezado de funcion invalido", 0))
          ELSE PushFrame(
                 [up EXCEPT !.functions = Append(@, [body |-> <<>>, headerLine |-> idx + 1]),
                            !.currentFunction = Len(up.functions) + 1],
                 "funcion", idx)
  ELSE IF kind = "inicio"
  THEN [PushFrame(st, "inicio", idx) EXCEPT
          !.inMain = TRUE, !.indentLevel = @ + 1, !.hasInicio = TRUE]
  ELSE IF kind \in {"mientras", "para", "repetir", "si"}
  THEN PushBody([PushFrame(st, kind, idx) EXCEPT !.indentLevel = @ + 1], kind, idx)
  ELSE IF kind \in {"finmientras", "finpara", "hasta", "finsi"}
  THEN CloseLine(st, kind, idx)
  ELSE IF kind = "declArreglo" THEN PushBody(st, kind, idx)
  ELSE IF kind \in {"entonces", "sino"} THEN BranchLine(st, kind, idx)
  ELSE IF kind = "fin" THEN FinLine(st, idx)
  ELSE PushBody(st, kind, idx)

\* the source text itself: which openers are open, and whether every closer
\* so far closed the innermost open block of its own kind
SrcOpens(kind) == kind \in {"funcion", "inicio", "mientras", "para", "repetir", "si"}
SrcCloses(kind) == kind \in {"fin", "finmientras", "finpara", "hasta", "finsi"}
SrcCloserFits(kind, open) ==
  /\ open # <<>>
  /\ \/ kind = "fin" /\ Last(open) \in {"funcion", "inicio"}
     \/ kind = "finmientras" /\ Last(open) = "mientras"
     \/ kind = "finpara" /\ Last(open) = "para"
     \/ kind = "hasta" /\ Last(open) = "repetir"
     \/ kind = "finsi" /\ Last(open) = "si"

PCan == ppc = "scan" /\ lineIdx < MaxLines

\* one non-blank line of the given shape, led by sp spaces and, when tb,
\* by tabs among them, is scanned
ReadLine(kind, sp, tb) ==
  /\ ppc = "scan"
  /\ POthers
  /\ LET st == ParseLine(PState, kind, sp, tb, lineIdx)
     IN /\ inMain' = st.inMain
        /\ currentFunction' = st.currentFunction
        /\ functions' = st.functions
        /\ mainBody' = st.mainBody
        /\ blockStack' = st.blockStack
        /\ indentLevel' = st.indentLevel
        /\ diagnostics' = st.diagnostics
        /\ hasInicio' = st.hasInicio
  /\ srcOpen' = IF SrcOpens(kind) THEN Append(srcOpen, kind)
                ELSE IF SrcCloses(kind) /\ SrcCloserFits(kind, srcOpen) THEN Front(srcOpen)
                ELSE srcOpen
  /\ srcOk' = (srcOk /\ (SrcCloses(kind) => SrcCloserFits(kind, srcOpen)))
  /\ lineIdx' = lineIdx + 1
  /\ UNCHANGED ppc

\* one non-blank, well-indented line of the given shape is scanned
ScanLine(kind) ==
  PCan /\ ReadLine(kind, expectedIndent(kind, indentLevel) * 2, FALSE)

\* the shapes whose indentation is followed: the opener of the main section
\* and of a conditional, `sino`, every closer, and a plain statement
IndentKinds ==
  {"inicio", "si", "sino", "finsi", "finmientras", "finpara", "hasta", "fin",
   "leer"}

\* the lines scanned: a shape led by spaces, or a statement led by tabs too
IndentLines ==
  (IndentKinds \X (0 .. MaxSpaces) \X {FALSE})
    \cup ({"leer"} \X (0 .. MaxSpaces) \X {TRUE})

\* one non-blank line with any leading white space is scanned
IScan ==
  /\ lineIdx < MaxIndentLines
  /\ \E l \in IndentLines : ReadLine(l[1], l[2], l[3])

PPrograma == PCan /\ ScanLine("programa")
PFuncion == PCan /\ ScanLine("funcion")
PFuncionMal == PCan /\ ScanLine("funcionMal")
PInicio == PCan /\ ScanLine("inicio")
PMientras == PCan /\ ScanLine("mientras")
PFinMientras == PCan /\ ScanLine("finmientras")
PPara == PCan /\ ScanLine("para")
PFinPara == PCan /\ ScanLine("finpara")
PRepetir == PCan /\ ScanLine("repetir")
PHasta == PCan /\ ScanLine("hasta")
PSi == PCan /\ ScanLine("si")
PDeclArreglo == PCan /\ ScanLine("declArreglo")
PEntonces == PCan /\ ScanLine("entonces")
PSino == PCan /\ ScanLine("sino")
PFinsi == PCan /\ ScanLine("finsi")
PFin == PCan /\ ScanLine("fin")
PPlain == PCan /\ \E kind \in PlainKinds : ScanLine(kind)

\* a blank line is skipped
PBlank ==
  /\ PCan
  /\ POthers
  /\ lineIdx' = lineIdx + 1
  /\ UNCHANGED <<ppc, inMain, currentFunction, functions, mainBody, blockStack,
                 indentLevel, diagnostics, hasInicio, srcOpen, srcOk>>

\* the errors reported for the frames left on the stack
UnclosedDiags(stack) ==
  [k \in 1 .. Len(stack) |->
     Diag(stack[k].line, "error", "Falta cerrar el bloque con", 0)
       @@ [token |-> endToken(stack[k].type)]]

PEndScan_MissingWhenMainNotOpen ==
  /\ ppc = "scan"
  /\ POthers
  /\ diagnostics' = diagnostics \o UnclosedDiags(blockStack)
        \o (IF ~inMain THEN <<Diag(0, "error", "Falta la seccion inicio", 0)>> ELSE <<>>)
  /\ ppc' = "done"
  /\ UNCHANGED <<lineIdx, inMain, currentFunction, functions, mainBody, blockStack,
                 indentLevel, hasInicio, srcOpen, srcOk>>

\* after the last line: unclosed blocks, then the missing main section
PEndScan ==
  /\ ppc = "scan"
  /\ POthers
  /\ diagnostics' = diagnostics \o UnclosedDiags(blockStack)
        \o (IF ~hasInicio THEN <<Diag(0, "error", "Falta la seccion inicio", 0)>> ELSE <<>>)
  /\ ppc' = "done"
  /\ UNCHANGED <<lineIdx, inMain, currentFunction, functions, mainBody, blockStack,
                 indentLevel, hasInicio, srcOpen, srcOk>>

ParserInit ==
  /\ ppc = "scan"
  /\ lineIdx = 0
  /\ inMain = FALSE
  /\ currentFunction = None
  /\ functions = <<>>
  /\ mainBody = <<>>
  /\ blockStack = <<>>
  /\ indentLevel = 0
  /\ diagnostics = <<>>
  /\ hasInicio = FALSE
  /\ srcOpen = <<>>
  /\ srcOk = TRUE

ParserIdle ==
  /\ ppc = "off"
  /\ lineIdx = 0
  /\ inMain = FALSE
  /\ currentFunction = None
  /\ functions = <<>>
  /\ mainBody = <<>>
  /\ blockStack = <<>>
  /\ indentLevel = 0
  /\ diagnostics = <<>>
  /\ hasInicio = FALSE
  /\ srcOpen = <<>>
  /\ srcOk = TRUE

\* ------------------------------------------------------------ console runner
\* Every handler runs to completion together with the promise reactions it
\* triggers: a started or resumed program runs until it suspends in io.read
\* or settles, and the catch/finally reactions follow a settled program
\* before the next event is handled.  The generated program is a sequence of
\* awaited statements; what it does between two suspension points is chosen
\* freely: some writes, then a read, its normal end, or a thrown error.

\* variant without the early return of executeProgram
RunGuard_Missing == FALSE

\* `if (runnerPromise) return`
RunGuard == runnerPromise # None

\* variant of io.read that leaves the stored resolver as it was
RegisterRead_Stale(rds) == waitingResolver

\* `waitingResolver = resolve` for the promise io.read has just made
RegisterRead(rds) == Len(rds) + 1

\* variant that does not store the promise chain of the started run
StartedPromise_Dropped(run) == None

\* `runnerPromise = runFn(io).catch(...).finally(...)`
StartedPromise(run) == run

\* variant without the catch reaction
SettleLines_NoCatch(outcome) == <<"> Fin de la ejecucion">>

\* console lines of the catch and finally reactions of a settled program
SettleLines(outcome) ==
  IF outcome = "error" THEN <<"Error", "> Fin de la ejecucion">>
  ELSE <<"> Fin de la ejecucion">>

ReadsOf(rds, run) == {i \in 1 .. Len(rds) : rds[i].run = run}

\* the program of `run` executes from its start or from a resolved read:
\* k writes, then `outcome`; held is runnerPromise before the reactions
Segment(run, cons, rds, rs, held, k, outcome) ==
  LET c1 == cons \o [i \in 1 .. k |-> "out"]
  IN IF outcome = "read"
     THEN [console |-> c1,
           reads |-> Append(rds, [run |-> run, state |-> "pending", value |-> ""]),
           waitingResolver |-> RegisterRead(rds),
           runnerPromise |-> held,
           runs |-> [rs EXCEPT ![run] = "suspended"],
           lastOutcome |-> "suspended"]
     ELSE [console |-> c1 \o SettleLines(outcome),
           reads |-> rds,
           waitingResolver |-> None,
           runnerPromise |-> None,
           runs |-> [rs EXCEPT ![run] = "settled"],
           lastOutcome |-> IF outcome = "error" THEN "failed" ELSE "ended"]

SetRunner(st) ==
  /\ console' = st.console
  /\ reads' = st.reads
  /\ waitingResolver' = st.waitingResolver
  /\ runnerPromise' = st.runnerPromise
  /\ runs' = st.runs
  /\ lastOutcome' = st.lastOutcome

MayRead(rds, run) == Cardinality(ReadsOf(rds, run)) < MaxReads

\* click on Run
ExecuteProgram ==
  /\ rpc = "on"
  /\ ROthers
  /\ lastEvent' = "run"
  /\ UNCHANGED rpc
  /\ IF RunGuard
     THEN /\ lastOutcome' = "ignored"
          /\ UNCHANGED <<runnerPromise, waitingResolver, console, runs, reads>>
     ELSE \/ \* new Function(...) throws on the generated text
             /\ console' = <<"> Ejecutando...">>
             /\ lastOutcome' = "compileError"
             /\ UNCHANGED <<runnerPromise, waitingResolver, runs, reads>>
          \/ /\ Len(runs) < MaxRuns
             /\ \E k \in 0 .. MaxWrites, outcome \in {"read", "end", "error"} :
                  LET run == Len(runs) + 1
                  IN SetRunner(Segment(run, <<"> Ejecutando...">>, reads,
                                       Append(runs, "suspended"),
                                       StartedPromise(run), k, outcome))

\* click on Send, or Enter in the input field
SubmitInput ==
  /\ rpc = "on"
  /\ ROthers
  /\ lastEvent' = "submit"
  /\ UNCHANGED rpc
  /\ IF waitingResolver = None
     THEN /\ lastOutcome' = "ignored"
          /\ UNCHANGED <<runnerPromise, waitingResolver, console, runs, reads>>
     ELSE \E value \in InputValues :
            LET w == waitingResolver
                run == reads[w].run
                resolved == [reads EXCEPT ![w] = [run |-> run, state |-> "resolved", value |-> value]]
            IN IF reads[w].state = "pending"
               THEN \E k \in 0 .. MaxWrites, outcome \in {"read", "end", "error"} :
                      /\ outcome = "read" => MayRead(reads, run)
                      /\ SetRunner(Segment(run, console, resolved, runs,
                                           runnerPromise, k, outcome))
               ELSE /\ waitingResolver' = None
                    /\ lastOutcome' = "lost"
                    /\ UNCHANGED <<runnerPromise, console, runs, reads>>

\* variant without the early return of the Clear handler
ClearGuard_Missing == FALSE

\* `if (runnerPromise) return` of the Clear handler
ClearGuard == runnerPromise # None

\* click on Clear
ClearConsole ==
  /\ rpc = "on"
  /\ ROthers
  /\ lastEvent' = "clear"
  /\ UNCHANGED <<rpc, runnerPromise, waitingResolver, runs, reads>>
  /\ IF ClearGuard
     THEN lastOutcome' = "ignored" /\ UNCHANGED console
     ELSE lastOutcome' = "cleared" /\ console' = <<>>

RunnerInit ==
  /\ rpc = "on"
  /\ runnerPromise = None
  /\ waitingResolver = None
  /\ console = <<>>
  /\ runs = <<>>
  /\ reads = <<>>
  /\ lastEvent = "none"
  /\ lastOutcome = "none"

RunnerIdle ==
  /\ rpc = "off"
  /\ runnerPromise = None
  /\ waitingResolver = None
  /\ console = <<>>
  /\ runs = <<>>
  /\ reads = <<>>
  /\ lastEvent = "none"
  /\ lastOutcome = "none"

\* ------------------------------------------------------------------ emitters
\* Expressions and emitted code are sequences of tokens.

Idents == {"a", "i", "v"}
DigitTok(n) ==
  CASE n = 0 -> "0" [] n = 1 -> "1" [] n = 2 -> "2" [] n = 3 -> "3"
    [] n = 4 -> "4" [] n = 5 -> "5" [] n = 6 -> "6" [] n = 7 -> "7"
    [] n = 8 -> "8" [] n = 9 -> "9"
DigitVal(t) == CHOOSE n \in 0 .. 9 : DigitTok(n) = t

\* the first `]` at or after position p, or 0
RECURSIVE FirstClose(_, _)
FirstClose(ts, p) ==
  IF p > Len(ts) THEN 0
  ELSE IF ts[p] = "]" THEN p
  ELSE FirstClose(ts, p + 1)

\* variant that leaves the index as written
IndexRewrite_Untranslated(name, index) ==
  <<name, "[">> \o index \o <<"]">>

\* the replacement `${name}[(${index}) - 1]`
IndexRewrite(name, index) ==
  <<name, "[", "(">> \o index \o <<")", "-", "1", "]">>

\* translateIndices: every  name [ <one or more tokens other than ]> ]
\* found from left to right is rewritten
RECURSIVE TranslateFrom(_, _)
TranslateFrom(ts, p) ==
  IF p > Len(ts) THEN <<>>
  ELSE LET q == FirstClose(ts, p + 2)
       IN IF /\ ts[p] \in Idents
             /\ p + 1 <= Len(ts) /\ ts[p + 1] = "["
             /\ q >= p + 3
          THEN IndexRewrite(ts[p], SubSeq(ts, p + 2, q - 1)) \o TranslateFrom(ts, q + 1)
          ELSE <<ts[p]>> \o TranslateFrom(ts, p + 1)

translateIndices(expr) == TranslateFrom(expr, 1)

\* parseArrayAccess: ^name [ (.+) ]$ ; the index is everything between the
\* first `[` and the final `]`
parseArrayAccess(text) ==
  IF /\ Len(text) >= 4
     /\ text[1] \in Idents /\ text[2] = "[" /\ text[Len(text)] = "]"
  THEN [ok |-> TRUE, name |-> text[1], index |-> SubSeq(text, 3, Len(text) - 1)]
  ELSE [ok |-> FALSE, name |-> "", index |-> <<>>]

\* the target of `leer` as both emitters write it
LeerTarget(target) ==
  LET m == parseArrayAccess(target)
  IN IF m.ok
     THEN <<m.name, "[", "(">> \o translateIndices(m.index) \o <<")", "-", "1", "]">>
     ELSE target

\* the header buildCCode emits for `para v desde S hasta E hacer`:
\*   for (int v = S - 1; v < E - 1 + 1; v += 1)
CPara(v, startExpr, endExpr) ==
  [var |-> v,
   init |-> translateIndices(startExpr) \o <<"-", "1">>,
   less |-> translateIndices(endExpr) \o <<"-", "1", "+", "1">>,
   step |-> <<"1">>]

\* the header buildJsCode emits for it:
\*   for (let v = S; S <= E ? v <= E : v >= E; v += S <= E ? 1 : -1)
JsPara(v, startExpr, endExpr) ==
  [var |-> v,
   init |-> translateIndices(startExpr),
   start |-> translateIndices(startExpr),
   end |-> translateIndices(endExpr)]

\* statements an array access can occur in
Contexts == {"leer", "mientras", "hasta", "si", "paraStart", "paraEnd", "escribir"}

\* buildCCode.emitBody, one statement
EmitC(ctx, expr) ==
  CASE ctx = "leer" -> <<"scanf", "(">> \o LeerTarget(expr) \o <<")", ";">>
    [] ctx = "mientras" -> <<"while", "(">> \o translateIndices(expr) \o <<")", "{">>
    [] ctx = "hasta" -> <<"}", "while", "(", "!", "(">> \o translateIndices(expr) \o <<")", ")", ";">>
    [] ctx = "si" -> <<"if", "(">> \o translateIndices(expr) \o <<")", "{">>
    [] ctx = "paraStart" -> <<"for", "(", "int", "v", "=">> \o CPara("v", expr, <<"1">>).init
    [] ctx = "paraEnd" -> <<"v", "<">> \o CPara("v", <<"1">>, expr).less
    [] ctx = "escribir" -> <<"printf", "(", "%s", ",">> \o translateIndices(expr) \o <<")", ";">>

\* buildJsCode.emitJsBody, one statement
EmitJs(ctx, expr) ==
  CASE ctx = "leer" -> LeerTarget(expr) \o <<"=", "await", "__readLine", "(", ")", ";">>
    [] ctx = "mientras" -> <<"while", "(">> \o translateIndices(expr) \o <<")", "{">>
    [] ctx = "hasta" -> <<"}", "while", "(", "!", "(">> \o translateIndices(expr) \o <<")", ")", ";">>
    [] ctx = "si" -> <<"if", "(">> \o translateIndices(expr) \o <<")", "{">>
    [] ctx = "paraStart" -> <<"for", "(", "let", "v", "=">> \o JsPara("v", expr, <<"1">>).init
    [] ctx = "paraEnd" -> <<"v", "<=">> \o JsPara("v", <<"1">>, expr).end
    [] ctx = "escribir" -> <<"const", "__out0", "=", "String", "(">> \o translateIndices(expr) \o <<")", ";">>

\* ---- running emitted code: integer expressions over + - ( ) and variables
TokVal(t, env) == IF t \in DOMAIN env THEN env[t] ELSE DigitVal(t)

RECURSIVE EvalE(_, _, _), EvalT(_, _, _), EvalRest(_, _, _, _)
EvalT(ts, p, env) ==
  IF ts[p] = "("
  THEN LET r == EvalE(ts, p + 1, env) IN [val |-> r.val, next |-> r.next + 1]
  ELSE [val |-> TokVal(ts[p], env), next |-> p + 1]
EvalRest(ts, acc, p, env) ==
  IF p <= Len(ts) /\ ts[p] \in {"+", "-"}
  THEN LET t == EvalT(ts, p + 1, env)
       IN EvalRest(ts, IF ts[p] = "+" THEN acc + t.val ELSE acc - t.val, t.next, env)
  ELSE [val |-> acc, next |-> p]
EvalE(ts, p, env) ==
  LET t == EvalT(ts, p, env) IN EvalRest(ts, t.val, t.next, env)
Eval(ts, env) == EvalE(ts, 1, env).val

\* position of the `]` that closes the `[` before position p
RECURSIVE MatchClose(_, _, _)
MatchClose(ts, p, depth) ==
  IF p > Len(ts) THEN 0
  ELSE IF ts[p] = "]" THEN (IF depth = 0 THEN p ELSE MatchClose(ts, p + 1, depth - 1))
  ELSE IF ts[p] = "[" THEN MatchClose(ts, p + 1, depth + 1)
  ELSE MatchClose(ts, p + 1, depth)

\* the subscript of the first array access in emitted code
RECURSIVE FirstOpen(_, _)
FirstOpen(ts, p) ==
  IF p > Len(ts) THEN 0 ELSE IF ts[p] = "[" THEN p ELSE FirstOpen(ts, p + 1)
Subscript(ts) ==
  LET o == FirstOpen(ts, 1)
  IN IF o = 0 THEN <<>> ELSE SubSeq(ts, o + 1, MatchClose(ts, o + 1, 0) - 1)

\* ---- one statement with an access a[<index>], emitted and run

IndexTok == IF iForm = "literal" THEN DigitTok(iIndex) ELSE "i"

\* the statement's expression: the access itself, or a comparison of it
SrcExpr ==
  <<"a", "[", IndexTok, "]">>
    \o (IF iCtx \in {"mientras", "hasta", "si"} THEN <<">", "0">> ELSE <<>>)

IEmitC ==
  /\ ipc = "src" /\ iEmitter = "c"
  /\ IOthers
  /\ emitted' = EmitC(iCtx, SrcExpr)
  /\ ipc' = "emitted"
  /\ UNCHANGED <<iSize, iIndex, iForm, iCtx, iEmitter, elem>>

IEmitJs ==
  /\ ipc = "src" /\ iEmitter = "js"
  /\ IOthers
  /\ emitted' = EmitJs(iCtx, SrcExpr)
  /\ ipc' = "emitted"
  /\ UNCHANGED <<iSize, iIndex, iForm, iCtx, iEmitter, elem>>

\* the emitted statement runs with i holding the index value
IRun ==
  /\ ipc = "emitted"
  /\ IOthers
  /\ elem' = Eval(Subscript(emitted), [i |-> iIndex])
  /\ ipc' = "done"
  /\ UNCHANGED <<iSize, iIndex, iForm, iCtx, iEmitter, emitted>>

IndexInit ==
  /\ ipc = "src"
  /\ iSize \in 1 .. MaxSize
  /\ iIndex \in 1 .. iSize
  /\ iForm \in {"literal", "variable"}
  /\ iCtx \in Contexts
  /\ iEmitter \in {"c", "js"}
  /\ emitted = <<>>
  /\ elem = None

IndexIdle ==
  /\ ipc = "off"
  /\ iSize = 1
  /\ iIndex = 1
  /\ iForm = "literal"
  /\ iCtx = "leer"
  /\ iEmitter = "c"
  /\ emitted = <<>>
  /\ elem = None

\* ---- `para v desde S hasta E hacer / leer a[v] / finpara`, emitted and run

Emitters == {"c", "js"}
BoundTok(n) == <<DigitTok(n)>>
CHeader == CPara("v", BoundTok(loopS), BoundTok(loopE))
JsHeader == JsPara("v", BoundTok(loopS), BoundTok(loopE))

ForInitValue(em) ==
  IF em = "c" THEN Eval(CHeader.init, [v |-> 0]) ELSE Eval(JsHeader.init, [v |-> 0])

\* variant whose test never looks at the direction of the range
ForCond_AscendingOnly(em, v) ==
  IF em = "c" THEN v < Eval(CHeader.less, [v |-> v])
  ELSE v <= Eval(JsHeader.end, [v |-> v])

ForCond(em, v) ==
  IF em = "c" THEN v < Eval(CHeader.less, [v |-> v])
  ELSE IF Eval(JsHeader.start, [v |-> v]) <= Eval(JsHeader.end, [v |-> v])
       THEN v <= Eval(JsHeader.end, [v |-> v])
       ELSE v >= Eval(JsHeader.end, [v |-> v])

\* variant whose instrumented loop counts upwards whatever the bounds
ForStep_JsAlwaysUp(em, v) ==
  IF em = "c" THEN Eval(CHeader.step, [v |-> v]) ELSE 1

ForStep(em, v) ==
  IF em = "c" THEN Eval(CHeader.step, [v |-> v])
  ELSE IF Eval(JsHeader.start, [v |-> v]) <= Eval(JsHeader.end, [v |-> v]) THEN 1 ELSE -1

\* the emitted target of the body statement `leer a[v]`
BodyTarget == LeerTarget(<<"a", "[", "v", "]">>)
BodySubscript == Subscript(BodyTarget)

\* element addressed by it
BodyElement(v) == Eval(BodySubscript, [v |-> v])

ForInit(em) ==
  /\ lpc[em] = "init"
  /\ LOthers
  /\ lv' = [lv EXCEPT ![em] = ForInitValue(em)]
  /\ lpc' = [lpc EXCEPT ![em] = "test"]
  /\ UNCHANGED <<loopS, loopE, lvals, lelems>>

ForTest(em) ==
  /\ lpc[em] = "test"
  /\ LOthers
  /\ lpc' = [lpc EXCEPT ![em] = IF ForCond(em, lv[em]) THEN "body" ELSE "done"]
  /\ UNCHANGED <<loopS, loopE, lv, lvals, lelems>>

\* the body, then the increment
ForBody(em) ==
  /\ lpc[em] = "body"
  /\ LOthers
  /\ lvals' = [lvals EXCEPT ![em] = Append(@, lv[em])]
  /\ lelems' = [lelems EXCEPT ![em] = Append(@, BodyElement(lv[em]))]
  /\ lv' = [lv EXCEPT ![em] = @ + ForStep(em, lv[em])]
  /\ lpc' = [lpc EXCEPT ![em] = "test"]
  /\ UNCHANGED <<loopS, loopE>>

CForInit == lpc["c"] = "init" /\ ForInit("c")
CForTest == lpc["c"] = "test" /\ ForTest("c")
CForBody == lpc["c"] = "body" /\ ForBody("c")
JsForInit == lpc["js"] = "init" /\ ForInit("js")
JsForTest == lpc["js"] = "test" /\ ForTest("js")
JsForBody == lpc["js"] = "body" /\ ForBody("js")

LoopInit ==
  /\ lpc = [em \in Emitters |-> "init"]
  /\ loopS \in 1 .. MaxLoopBound
  /\ loopE \in 1 .. MaxLoopBound
  /\ lv = [em \in Emitters |-> 0]
  /\ lvals = [em \in Emitters |-> <<>>]
  /\ lelems = [em \in Emitters |-> <<>>]

LoopIdle ==
  /\ lpc = [em \in Emitters |-> "off"]
  /\ loopS = 1
  /\ loopE = 1
  /\ lv = [em \in Emitters |-> 0]
  /\ lvals = [em \in Emitters |-> <<>>]
  /\ lelems = [em \in Emitters |-> <<>>]

\* ---- `repetir / <body> / hasta(i > K)`, emitted and run

\* `repetir` in both emitters
EmitRepetir == <<"do", "{">>

\* variant that emits the written condition as the continuation test
EmitHasta_NoNegation(em, cond) ==
  <<"}", "while", "(">> \o translateIndices(cond) \o <<")", ";">>

\* `hasta(cond)` in the emitter em
EmitHasta(em, cond) ==
  IF em = "c" THEN EmitC("hasta", cond) ELSE EmitJs("hasta", cond)

\* the written condition
RepeatCond == <<"i", ">", DigitTok(qK)>>

\* the three statements, emitted in order by the emitter em
EmitRepeat(em, body, cond) ==
  << EmitRepetir,
     IF em = "c" THEN EmitC(body, <<"i">>) ELSE EmitJs(body, <<"i">>),
     EmitHasta(em, cond) >>

\* a condition of emitted code: ! ( <condition> )  or  <expr> > <expr>
RECURSIVE BoolEval(_, _)
BoolEval(ts, env) ==
  IF ts[1] = "!"
  THEN ~BoolEval(SubSeq(ts, 3, Len(ts) - 1), env)
  ELSE LET k == CHOOSE j \in 1 .. Len(ts) : ts[j] = ">"
       IN Eval(SubSeq(ts, 1, k - 1), env) > Eval(SubSeq(ts, k + 1, Len(ts)), env)

IsDo(line) == line = <<"do", "{">>
IsWhileTail(line) == Len(line) >= 2 /\ line[1] = "}" /\ line[2] = "while"
IsRead(line) == \E k \in 1 .. Len(line) : line[k] \in {"scanf", "__readLine"}

\* the test of  } while ( <test> ) ;
WhileTest(line) == SubSeq(line, 4, Len(line) - 2)

\* the `do {` a `} while (...);` at line p belongs to
RECURSIVE MatchDo(_, _, _)
MatchDo(code, p, depth) ==
  IF p < 1 THEN 0
  ELSE IF IsWhileTail(code[p]) THEN MatchDo(code, p - 1, depth + 1)
  ELSE IF IsDo(code[p]) THEN (IF depth = 0 THEN p ELSE MatchDo(code, p - 1, depth - 1))
  ELSE MatchDo(code, p - 1, depth)

\* where control is after moving to line l
PcAt(l) == IF l > Len(qCode) THEN "done" ELSE "run"

QAtLine == qpc = "run" /\ qLine \in 1 .. Len(qCode)

QEmitC ==
  /\ qpc = "src" /\ qEmitter = "c"
  /\ QOthers
  /\ qCode' = EmitRepeat("c", qBody, RepeatCond)
  /\ qpc' = "run"
  /\ qLine' = 1
  /\ UNCHANGED <<qEmitter, qBody, qK, qi, qBodies, qEvals>>

QEmitJs ==
  /\ qpc = "src" /\ qEmitter = "js"
  /\ QOthers
  /\ qCode' = EmitRepeat("js", qBody, RepeatCond)
  /\ qpc' = "run"
  /\ qLine' = 1
  /\ UNCHANGED <<qEmitter, qBody, qK, qi, qBodies, qEvals>>

\* do {
QDo ==
  /\ QAtLine /\ IsDo(qCode[qLine])
  /\ QOthers
  /\ qLine' = qLine + 1
  /\ qpc' = PcAt(qLine + 1)
  /\ UNCHANGED <<qEmitter, qBody, qK, qi, qCode, qBodies, qEvals>>

\* the body reads i
QRead ==
  /\ QAtLine /\ ~IsDo(qCode[qLine]) /\ ~IsWhileTail(qCode[qLine])
  /\ IsRead(qCode[qLine])
  /\ qBodies < MaxRepeat
  /\ QOthers
  /\ \E val \in 0 .. MaxValue : qi' = val
  /\ qBodies' = qBodies + 1
  /\ qLine' = qLine + 1
  /\ qpc' = PcAt(qLine + 1)
  /\ UNCHANGED <<qEmitter, qBody, qK, qCode, qEvals>>

\* the body writes i
QWrite ==
  /\ QAtLine /\ ~IsDo(qCode[qLine]) /\ ~IsWhileTail(qCode[qLine])
  /\ ~IsRead(qCode[qLine])
  /\ qBodies < MaxRepeat
  /\ QOthers
  /\ qBodies' = qBodies + 1
  /\ qLine' = qLine + 1
  /\ qpc' = PcAt(qLine + 1)
  /\ UNCHANGED <<qEmitter, qBody, qK, qi, qCode, qEvals>>

\* } while (<test>);
QTest ==
  /\ QAtLine /\ IsWhileTail(qCode[qLine])
  /\ QOthers
  /\ LET env == [i |-> qi]
         again == BoolEval(WhileTest(qCode[qLine]), env)
         top == MatchDo(qCode, qLine - 1, 0)
         l == IF again THEN top + 1 ELSE qLine + 1
     IN /\ qEvals' = Append(qEvals, BoolEval(RepeatCond, env))
        /\ qLine' = l
        /\ qpc' = PcAt(l)
  /\ UNCHANGED <<qEmitter, qBody, qK, qi, qCode, qBodies>>

RepeatInit ==
  /\ qpc = "src"
  /\ qEmitter \in {"c", "js"}
  /\ qBody \in {"leer", "escribir"}
  /\ qK \in 0 .. (MaxValue - 1)
  /\ qi \in 0 .. MaxValue
  /\ qCode = <<>>
  /\ qLine = 0
  /\ qBodies = 0
  /\ qEvals = <<>>

RepeatIdle ==
  /\ qpc = "off"
  /\ qEmitter = "c"
  /\ qBody = "leer"
  /\ qK = 0
  /\ qi = 0
  /\ qCode = <<>>
  /\ qLine = 0
  /\ qBodies = 0
  /\ qEvals = <<>>

\* ---- variable slots and trace instrumentation
\* A body is a sequence of BodyLine entries; the text of an entry is kept as
\* the statement kind k and the name n it mentions.

\* Set.add on the insertion-ordered set of names
AddVar(names, name) ==
  IF \E k \in 1 .. Len(names) : names[k] = name THEN names ELSE Append(names, name)

\* new Set(initial)
RECURSIVE SetOf(_, _, _)
SetOf(initial, k, names) ==
  IF k > Len(initial) THEN names ELSE SetOf(initial, k + 1, AddVar(names, initial[k]))

\* variant that keeps every occurrence of a name
CollectEntry_NoDedup(names, e) ==
  IF e.k \in {"leer", "leerArr", "arreglo", "para"} THEN Append(names, e.n) ELSE names

\* the body.forEach callback of collectScopeVars
CollectEntry(names, e) ==
  LET v1 == IF e.k \in {"leer", "leerArr"} THEN AddVar(names, e.n) ELSE names
      v2 == IF e.k = "arreglo" THEN AddVar(v1, e.n) ELSE v1
  IN IF e.k = "para" THEN AddVar(v2, e.n) ELSE v2

RECURSIVE CollectFrom(_, _, _)
CollectFrom(body, k, names) ==
  IF k > Len(body) THEN names ELSE CollectFrom(body, k + 1, CollectEntry(names, body[k]))

collectScopeVars(body, initial) == CollectFrom(body, 1, SetOf(initial, 1, <<>>))

\* `fn:${name}`
ScopeKey(name) == "fn:" \o name

\* pushSlots
PushSlots(slots, scope, names) ==
  slots \o [k \in 1 .. Len(names) |->
              [label |-> names[k], scope |-> scope, name |-> names[k]]]

RECURSIVE PushFnSlots(_, _, _)
PushFnSlots(fnScopes, k, slots) ==
  IF k > Len(fnScopes) THEN slots
  ELSE PushFnSlots(fnScopes, k + 1,
                   PushSlots(slots, ScopeKey(fnScopes[k].name), fnScopes[k].vars))

buildScopeVars(fns, body) ==
  LET main == collectScopeVars(body, <<>>)
      fnScopes == [k \in 1 .. Len(fns) |->
                     [name |-> fns[k].name,
                      vars |-> collectScopeVars(fns[k].body, fns[k].params)]]
  IN [main |-> main,
      functions |-> fnScopes,
      variableSlots |-> PushFnSlots(fnScopes, 1, PushSlots(<<>>, "main", main))]

\* scopeVarMap.get(scope) ?? []  (a later function of the same name wins)
ScopeVarsOf(sv, scope) ==
  IF scope = "main" THEN sv.main
  ELSE LET hits == {k \in 1 .. Len(sv.functions) : ScopeKey(sv.functions[k].name) = scope}
       IN IF hits = {} THEN <<>>
          ELSE sv.functions[CHOOSE k \in hits : \A j \in hits : j <= k].vars

\* one entry of an emitted snapshot array: the literal "" or an expression
\* over the variable `name`
Entry(form, name) == [form |-> form, name |-> name]

\* variant that does not look at the scope of a slot
buildTraceArrayFor_AnyScope(sv, scope, names, mode) ==
  [k \in 1 .. Len(sv.variableSlots) |->
     LET slot == sv.variableSlots[k]
     IN IF slot.name \notin names THEN Entry("empty", "")
        ELSE IF mode = "empty" THEN Entry("empty", "")
        ELSE Entry(mode, slot.name)]

buildTraceArrayFor(sv, scope, names, mode) ==
  [k \in 1 .. Len(sv.variableSlots) |->
     LET slot == sv.variableSlots[k]
     IN IF slot.scope # scope \/ slot.name \notin names THEN Entry("empty", "")
        ELSE IF mode = "empty" THEN Entry("empty", "")
        ELSE Entry(mode, slot.name)]

buildTraceArray(sv, scope, mode) ==
  LET vs == ScopeVarsOf(sv, scope)
  IN buildTraceArrayFor(sv, scope, {vs[k] : k \in 1 .. Len(vs)}, mode)

\* ---- statement recognizers
\* A line is a sequence of tokens: words, digits, the space and the
\* brackets.  Two words never touch (they would be one word).

Blank == " "
\* the type words parseArreglo accepts
ArrayTypes == {"entero", "cadena", "caracter", "booleano"}
Digits == {"1", "2", "3"}
IsWord(tok) == tok \notin {Blank, "(", ")", "[", "]"} \cup Digits

\* first position from i on that holds no space
RECURSIVE SkipSpaces(_, _)
SkipSpaces(t, i) == IF i <= Len(t) /\ t[i] = Blank THEN SkipSpaces(t, i + 1) ELSE i

At(t, i, tok) == i >= 1 /\ i <= Len(t) /\ t[i] = tok

\* /^<word>\s*\((.*)\)\s*$/i
HeadParen(t, word) ==
  /\ At(t, 1, word)
  /\ At(t, SkipSpaces(t, 2), "(")
  /\ At(t, Len(t), ")")
  /\ SkipSpaces(t, 2) < Len(t)

parseMientras(t) == HeadParen(t, "mientras")
parseHasta(t) == HeadParen(t, "hasta")

\* /^para\s+(id)\s+desde\s+(.+?)\s+hasta\s+(.+?)\s+hacer\s*$/i
parsePara(t) ==
  /\ At(t, 1, "para") /\ At(t, 2, Blank)
  /\ LET v == SkipSpaces(t, 2)
         d == SkipSpaces(t, v + 1)
     IN /\ v <= Len(t) /\ IsWord(t[v])
        /\ At(t, v + 1, Blank)
        /\ At(t, d, "desde") /\ At(t, d + 1, Blank)
        /\ At(t, Len(t), "hacer") /\ At(t, Len(t) - 1, Blank)
        /\ \E h \in d + 4 .. Len(t) - 4 :
             At(t, h, "hasta") /\ At(t, h - 1, Blank) /\ At(t, h + 1, Blank)

\* /^si\s+(.+)$/i
parseSi(t) == At(t, 1, "si") /\ At(t, 2, Blank) /\ Len(t) >= 3

\* /^(entero|cadena|caracter|booleano)\s+(id)\s*\[(\d+)\]\s*$/i
parseArreglo(t) ==
  /\ Len(t) >= 1 /\ t[1] \in ArrayTypes /\ At(t, 2, Blank)
  /\ LET v == SkipSpaces(t, 2)
         b == SkipSpaces(t, v + 1)
     IN /\ v <= Len(t) /\ IsWord(t[v])
        /\ At(t, b, "[")
        /\ b + 1 <= Len(t) /\ t[b + 1] \in Digits
        /\ At(t, b + 2, "]")
        /\ Len(t) = b + 2

\* lower.startsWith('<word> ')
StartsWith(t, word) == At(t, 1, word) /\ At(t, 2, Blank)

\* /[A-Za-z_][A-Za-z0-9_]*\s*\(.*\)\s*$/
isCallLike(t) ==
  /\ At(t, Len(t), ")")
  /\ \E i \in 1 .. Len(t) :
       IsWord(t[i]) /\ At(t, SkipSpaces(t, i + 1), "(") /\ SkipSpaces(t, i + 1) < Len(t)

\* the test each consumer makes for a kind of statement
Matches(kind, t) ==
  CASE kind = "mientras" -> parseMientras(t)
    [] kind = "hasta" -> parseHasta(t)
    [] kind = "para" -> parsePara(t)
    [] kind = "si" -> parseSi(t)
    [] kind = "arreglo" -> parseArreglo(t)
    [] kind = "leer" -> StartsWith(t, "leer")
    [] kind = "escribir" -> StartsWith(t, "escribir")
    [] kind = "llamada" -> isCallLike(t)
    [] OTHER -> t = << kind >>

\* the order in which each consumer makes its tests
ParserOrder ==
  <<"mientras", "finmientras", "para", "finpara", "repetir", "hasta", "si",
    "arreglo", "entonces", "sino", "finsi">>
FlowOrder ==
  <<"leer", "mientras", "finmientras", "para", "finpara", "repetir", "hasta", "si",
    "entonces", "sino", "finsi", "escribir", "volver", "llamada">>
MermaidOrder ==
  <<"mientras", "finmientras", "para", "finpara", "repetir", "hasta", "si",
    "entonces", "sino", "finsi", "leer", "escribir", "volver", "llamada">>
EmitterOrder_CallFirst ==
  <<"llamada", "arreglo", "leer", "mientras", "finmientras", "para", "finpara", "repetir",
    "hasta", "si", "entonces", "sino", "finsi", "escribir", "volver">>
EmitterOrder ==
  <<"arreglo", "leer", "mientras", "finmientras", "para", "finpara", "repetir", "hasta",
    "si", "entonces", "sino", "finsi", "escribir", "volver", "llamada">>

\* the first test of the order that the line passes
RECURSIVE Classify(_, _, _)
Classify(order, k, t) ==
  IF k > Len(order) THEN "otro"
  ELSE IF Matches(order[k], t) THEN order[k]
  ELSE Classify(order, k + 1, t)

\* the consumers in the order analyzePseudocode runs them
Consumers == <<"parser", "flow", "c", "js", "mermaid">>

OrderOf(consumer) ==
  CASE consumer = "parser" -> ParserOrder
    [] consumer = "flow" -> FlowOrder
    [] consumer = "mermaid" -> MermaidOrder
    [] OTHER -> EmitterOrder

KConsume(consumer) ==
  /\ kStep # None /\ kStep < Len(Consumers) /\ Consumers[kStep + 1] = consumer
  /\ KOthers
  /\ kSeen' = [kSeen EXCEPT ![consumer] = Classify(OrderOf(consumer), 1, kLine)]
  /\ kStep' = kStep + 1
  /\ UNCHANGED kLine

KParser == KConsume("parser")
KFlow == KConsume("flow")
KC == KConsume("c")
KJs == KConsume("js")
KMermaid == KConsume("mermaid")

\* first words of the lines: the keywords of the statements and a name
Heads ==
  {"mientras", "hasta", "para", "si", "leer", "escribir", "entero", "volver", "repetir",
   "entonces", "sino", "finsi", "finmientras", "finpara", "f"}

\* what follows the first word: every run of spaces, brackets and names,
\* and the rest of a counted-loop header, of an array declaration and of a
\* read of an array element
TailTokens == {Blank, "(", ")", "x"}

LongTails ==
  { <<Blank, "x", Blank, "desde", Blank, "1", Blank, "hasta", Blank, "2", Blank, "hacer">>,
    <<Blank, "x", Blank, "desde", Blank, "f", "(", "1", ")", Blank, "hasta", Blank, "f", "(", "2", ")", Blank, "hacer">>,
    <<Blank, "x", Blank, "desde", Blank, "1", Blank, "hasta", Blank, "f", "(", "2", ")">>,
    <<Blank, "a", "[", "3", "]">>,
    <<Blank, "a", Blank, "[", "3", "]">>,
    <<Blank, "a", "[", "x", "]">>,
    <<Blank, "a", "[", "f", "(", "x", ")", "]">> }

\* a trimmed line: no space at its end, no word touching another word
WellFormed(t) ==
  /\ t[Len(t)] # Blank
  /\ \A i \in 1 .. Len(t) - 1 : ~(IsWord(t[i]) /\ IsWord(t[i + 1]))

StatementLines ==
  { t \in { <<h>> \o tail : h \in Heads,
             tail \in LongTails \cup UNION { [1 .. n -> TailTokens] : n \in 0 .. MaxTail } } :
      WellFormed(t) }

NoneSeen == [c \in {Consumers[k] : k \in 1 .. Len(Consumers)} |-> ""]

ShapeInit ==
  /\ kStep = 0
  /\ kLine \in StatementLines
  /\ kSeen = NoneSeen

ShapeIdle ==
  /\ kStep = None
  /\ kLine = << >>
  /\ kSeen = NoneSeen

\* ---- sanitizeMermaidLabel

\* the characters of a label: a letter, the semicolon and the eight
\* characters the function replaces
LabelChars == {"a", ";", "&", "<", ">", "[", "]", "{", "}", "\""}

Amp == <<"&", "a", "m", "p", ";">>
Lt == <<"&", "l", "t", ";">>
Gt == <<"&", "g", "t", ";">>
Quot == <<"&", "q", "u", "o", "t", ";">>

\* String.prototype.replace with a global one-character pattern
RECURSIVE ReplaceAll(_, _, _)
ReplaceAll(text, ch, by) ==
  IF text = << >> THEN << >>
  ELSE (IF text[1] = ch THEN by ELSE << text[1] >>) \o ReplaceAll(Tail(text), ch, by)

\* variant without the last pass
Passes_QuoteKept ==
  << <<"&", Amp>>, <<"<", Lt>>, <<">", Gt>>, <<"[", <<"(">> >>, <<"]", <<")">> >>,
     <<"{", <<"(">> >>, <<"}", <<")">> >>, <<"a", <<"a">> >> >>

\* the chained .replace calls, in order
Passes ==
  << <<"&", Amp>>, <<"<", Lt>>, <<">", Gt>>, <<"[", <<"(">> >>, <<"]", <<")">> >>,
     <<"{", <<"(">> >>, <<"}", <<")">> >>, <<"\"", Quot>> >>

\* one .replace call of the chain
SPass ==
  /\ spc # None /\ spc < Len(Passes)
  /\ SOthers
  /\ sText' = ReplaceAll(sText, Passes[spc + 1][1], Passes[spc + 1][2])
  /\ spc' = spc + 1
  /\ UNCHANGED sLabel

LabelInit ==
  /\ spc = 0
  /\ \E n \in 0 .. MaxLabelLen : sLabel \in [1 .. n -> LabelChars]
  /\ sText = sLabel

LabelIdle ==
  /\ spc = None
  /\ sLabel = << >>
  /\ sText = << >>

\* ---- analyzePseudocode, called again on the same text

\* line kinds of the analysed texts
AgainKinds == {"funcion", "inicio", "fin", "finsi", "leer", "escribir", "otro"}

\* variant in which the diagnostics list outlives the call
ParserLocals_SharedDiagnostics ==
  [inMain |-> FALSE, currentFunction |-> None, functions |-> << >>,
   mainBody |-> << >>, blockStack |-> << >>, indentLevel |-> 0,
   diagnostics |-> diagnostics, hasInicio |-> FALSE]

\* the locals parsePseudocodeText declares on entry
ParserLocals ==
  [inMain |-> FALSE, currentFunction |-> None, functions |-> << >>,
   mainBody |-> << >>, blockStack |-> << >>, indentLevel |-> 0,
   diagnostics |-> << >>, hasInicio |-> FALSE]

\* `let nodeId = 0` of buildMermaid, `let outIndex = 0` of emitJsBody
NodeIdOnEntry == 0
OutIndexOnEntry == 0

\* buildMermaid over plain statements: the ids addNode hands out to
\* Inicio, each statement and Fin
MermaidIds(body, nodeId) ==
  [k \in 1 .. Len(body) + 2 |->
     [id |-> nodeId + k - 1,
      label |-> IF k = 1 THEN "Inicio" ELSE IF k = Len(body) + 2 THEN "Fin" ELSE body[k - 1].text]]

\* emitJsBody: the `__out<n>` names of the escribir statements
RECURSIVE OutVars(_, _, _)
OutVars(body, k, outIndex) ==
  IF k > Len(body) THEN << >>
  ELSE IF body[k].text = "escribir"
  THEN << [line |-> body[k].line, out |-> outIndex] >> \o OutVars(body, k + 1, outIndex + 1)
  ELSE OutVars(body, k + 1, outIndex)

\* the lines of buildCCode.emitBody for plain statements
CKinds(body) ==
  [k \in 1 .. Len(body) |->
     IF body[k].text = "leer" THEN "scanf"
     ELSE IF body[k].text = "escribir" THEN "printf" ELSE "otro"]

\* the ParseResult analyzePseudocode returns
AnalysisResult ==
  [functions |-> functions,
   mainBody |-> mainBody,
   diagnostics |-> diagnostics,
   mermaidCode |-> MermaidIds(mainBody, NodeIdOnEntry),
   jsCode |-> OutVars(mainBody, 1, OutIndexOnEntry),
   cCode |-> CKinds(mainBody)]

\* one line of the text goes through lines.forEach
YScan ==
  /\ ypc = "run" /\ lineIdx < Len(yText)
  /\ ScanLine(yText[lineIdx + 1])

\* the checks after the last line
YEndScan ==
  /\ ypc = "run" /\ lineIdx = Len(yText)
  /\ PEndScan

\* the builders run on the parsed program and the call returns; the first
\* call is followed by a second one on the same text
YReturn ==
  /\ ypc = "run" /\ ppc = "done"
  /\ ZOthers
  /\ yResults' = Append(yResults, AnalysisResult)
  /\ yNodeId' = NodeIdOnEntry + Len(mainBody) + 2
  /\ yOutIndex' = OutIndexOnEntry + Len(OutVars(mainBody, 1, 0))
  /\ ypc' = IF yResults = << >> THEN "run" ELSE "done"
  /\ ppc' = IF yResults = << >> THEN "scan" ELSE "done"
  /\ IF yResults = << >>
     THEN /\ lineIdx' = 0
          /\ inMain' = ParserLocals.inMain
          /\ currentFunction' = ParserLocals.currentFunction
          /\ functions' = ParserLocals.functions
          /\ mainBody' = ParserLocals.mainBody
          /\ blockStack' = ParserLocals.blockStack
          /\ indentLevel' = ParserLocals.indentLevel
          /\ diagnostics' = ParserLocals.diagnostics
          /\ hasInicio' = ParserLocals.hasInicio
          /\ srcOpen' = << >>
          /\ srcOk' = TRUE
     ELSE UNCHANGED <<lineIdx, inMain, currentFunction, functions, mainBody, blockStack,
                      indentLevel, diagnostics, hasInicio, srcOpen, srcOk>>
  /\ UNCHANGED yText

AgainInit ==
  /\ ypc = "run"
  /\ \E n \in 1 .. MaxAgainLines : yText \in [1 .. n -> AgainKinds]
  /\ yResults = << >>
  /\ yNodeId = 0
  /\ yOutIndex = 0

AgainIdle ==
  /\ ypc = "off"
  /\ yText = << >>
  /\ yResults = << >>
  /\ yNodeId = 0
  /\ yOutIndex = 0

\* ---- array declarations: `<tipo> <nombre>[<n>]`

ArrayNames == {"numeros", "nombres", "flags"}

\* buildCCode: `${cType} ${name}[${size}]${elemSize};`
CArrayDecl(type, name, size) ==
  [cType |-> IF type = "entero" THEN "int" ELSE "char",
   name |-> name,
   size |-> size,
   elemSize |-> IF type = "cadena" THEN "[100]" ELSE ""]

\* buildJsCode: `let ${name} = Array(${size}).fill(${fillValue});`
JsArrayDecl(type, name, size) ==
  [name |-> name,
   size |-> size,
   fillValue |-> IF type = "cadena" THEN "\"\"" ELSE IF type = "booleano" THEN "false" ELSE "0"]

DEmitC ==
  /\ dpc = "src" /\ dC = << >>
  /\ DOthers
  /\ dC' = << CArrayDecl(dType, dName, dSize) >>
  /\ UNCHANGED <<dpc, dType, dName, dSize, dJs>>

DEmitJs ==
  /\ dpc = "src" /\ dJs = << >>
  /\ DOthers
  /\ dJs' = << JsArrayDecl(dType, dName, dSize) >>
  /\ UNCHANGED <<dpc, dType, dName, dSize, dC>>

DeclInit ==
  /\ dpc = "src"
  /\ dType \in ArrayTypes
  /\ dName \in ArrayNames
  /\ dSize \in 0 .. MaxSize
  /\ dC = << >>
  /\ dJs = << >>

DeclIdle ==
  /\ dpc = "off"
  /\ dType = ""
  /\ dName = ""
  /\ dSize = 0
  /\ dC = << >>
  /\ dJs = << >>

\* ---- parseArguments

\* the characters of an argument text: a letter, the comma, the double
\* quote, the backslash and the space
ArgChars == {"a", ",", "\"", "\\", " "}

\* String.prototype.trim
RECURSIVE Trim(_)
Trim(s) ==
  IF s = << >> THEN s
  ELSE IF s[1] = " " THEN Trim(SubSeq(s, 2, Len(s)))
  ELSE IF s[Len(s)] = " " THEN Trim(SubSeq(s, 1, Len(s) - 1))
  ELSE s

\* `const trimmed = current.trim(); if (trimmed) args.push(trimmed)`
PushArg(args, cur) == IF Trim(cur) # << >> THEN Append(args, Trim(cur)) ELSE args

ArgState ==
  [current |-> aCurrent, inString |-> aInString, escaped |-> aEscaped, args |-> aArgs]

\* variant in which a backslash is an ordinary character
Consume_NoEscape(st, char) ==
  IF char = "\""
  THEN [st EXCEPT !.inString = ~@, !.current = Append(@, char)]
  ELSE IF char = "," /\ ~st.inString
  THEN [st EXCEPT !.args = PushArg(@, st.current), !.current = << >>]
  ELSE [st EXCEPT !.current = Append(@, char)]

\* the body of the for loop, for one character
Consume(st, char) ==
  IF st.escaped
  THEN [st EXCEPT !.current = Append(@, char), !.escaped = FALSE]
  ELSE IF char = "\\"
  THEN [st EXCEPT !.current = Append(@, char), !.escaped = TRUE]
  ELSE IF char = "\""
  THEN [st EXCEPT !.inString = ~@, !.current = Append(@, char)]
  ELSE IF char = "," /\ ~st.inString
  THEN [st EXCEPT !.args = PushArg(@, st.current), !.current = << >>]
  ELSE [st EXCEPT !.current = Append(@, char)]

\* one iteration of the loop
AConsume ==
  /\ apc = "scan" /\ aI < Len(aText)
  /\ AOthers
  /\ LET st == Consume(ArgState, aText[aI + 1])
     IN /\ aCurrent' = st.current
        /\ aInString' = st.inString
        /\ aEscaped' = st.escaped
        /\ aArgs' = st.args
  /\ aI' = aI + 1
  /\ UNCHANGED <<apc, aText>>

\* after the loop: the last argument, then return args
AReturn ==
  /\ apc = "scan" /\ aI = Len(aText)
  /\ AOthers
  /\ aArgs' = PushArg(aArgs, aCurrent)
  /\ apc' = "done"
  /\ UNCHANGED <<aText, aI, aCurrent, aInString, aEscaped>>

\* rawArgs: the text after `escribir `, trimmed, of a trimmed line
ArgTexts ==
  UNION { {t \in [1 .. n -> ArgChars] : t[1] # " " /\ t[n] # " "} : n \in 1 .. MaxArgLen }

ArgsInit ==
  /\ apc = "scan"
  /\ aText \in ArgTexts
  /\ aI = 0
  /\ aCurrent = << >>
  /\ aInString = FALSE
  /\ aEscaped = FALSE
  /\ aArgs = << >>

ArgsIdle ==
  /\ apc = "off"
  /\ aText = << >>
  /\ aI = 0
  /\ aCurrent = << >>
  /\ aInString = FALSE
  /\ aEscaped = FALSE
  /\ aArgs = << >>

\* ---- buildScopeVars applied to the bodies of a parsed program

\* names of the functions, in source order
FnNames == <<"f", "g", "h", "k">>

\* parameter lists of a function header: (), (p), (x, p), (p, p)
ParamLists == { << >>, <<"p">>, <<"x", "p">>, <<"p", "p">> }

\* statement texts of the bodies:
\*   leer x | leer p | leer a[1] | entero a[2] | entero x[2] |
\*   para x desde 1 hasta 2 hacer | escribir x
ScopeStmts ==
  { <<"leer", "x">>, <<"leer", "p">>, <<"leerArr", "a">>, <<"arreglo", "a">>,
    <<"arreglo", "x">>, <<"para", "x">>, <<"escribir", "x">> }

\* number of statements stored so far
RECURSIVE StoredIn(_, _)
StoredIn(fns, k) == IF k = 0 THEN 0 ELSE Len(fns[k].body) + StoredIn(fns, k - 1)
VStored == Len(vMain) + StoredIn(vFns, Len(vFns))

\* funcion <name>(<params>)
VFuncion ==
  /\ vpc = "src" /\ vMain = << >> /\ Len(vFns) < MaxFns
  /\ VOthers
  /\ \E ps \in ParamLists :
       vFns' = Append(vFns, [name |-> FnNames[Len(vFns) + 1], params |-> ps,
                             headerLine |-> VStored + 2 * Len(vFns) + 1, body |-> << >>])
  /\ UNCHANGED <<vpc, vMain, vOut>>

\* a statement of the body of the last function
VFnStmt ==
  /\ vpc = "src" /\ vMain = << >> /\ vFns # << >> /\ VStored < MaxScopeStmts
  /\ VOthers
  /\ \E t \in ScopeStmts :
       vFns' = [vFns EXCEPT ![Len(vFns)].body =
                  Append(@, [k |-> t[1], n |-> t[2], line |-> VStored + 2 * Len(vFns)])]
  /\ UNCHANGED <<vpc, vMain, vOut>>

\* a statement of the main section
VMainStmt ==
  /\ vpc = "src" /\ VStored < MaxScopeStmts
  /\ VOthers
  /\ \E t \in ScopeStmts :
       vMain' = Append(vMain, [k |-> t[1], n |-> t[2], line |-> VStored + 2 * Len(vFns) + 2])
  /\ UNCHANGED <<vpc, vFns, vOut>>

\* const scopeVars = buildScopeVars(functions, mainBody)
VBuild ==
  /\ vpc = "src"
  /\ VOthers
  /\ vOut' = buildScopeVars(vFns, vMain)
  /\ vpc' = "built"
  /\ UNCHANGED <<vFns, vMain>>

NoScopeVars == [main |-> << >>, functions |-> << >>, variableSlots |-> << >>]

ScopeInit ==
  /\ vpc = "src"
  /\ vFns = << >>
  /\ vMain = << >>
  /\ vOut = NoScopeVars

ScopeIdle ==
  /\ vpc = "off"
  /\ vFns = << >>
  /\ vMain = << >>
  /\ vOut = NoScopeVars

\* ---- a program of two scopes: the function f(p) and the main section.
\* One of them has the body under study, the other the body `leer x`.

BodyLine(k, n, line) == [k |-> k, n |-> n, line |-> line]

\* statement texts of the body under study:
\*   leer x | leer y | leer a[1] | entero a[2] |
\*   para v desde 1 hasta 2 hacer | finpara | escribir "hola" | volver
TraceStmts ==
  { <<"leer", "x">>, <<"leer", "y">>, <<"leerArr", "a">>, <<"arreglo", "a">>,
    <<"para", "v">>, <<"finpara", "">>, <<"escribir", "">>, <<"volver", "">> }

\* number of para blocks open after the first k statements; -1 when a
\* finpara has no para
RECURSIVE OpenAfter(_, _)
OpenAfter(b, k) ==
  IF k = 0 THEN 0
  ELSE LET d == OpenAfter(b, k - 1)
       IN IF d < 0 THEN -1
          ELSE IF b[k][1] = "para" THEN d + 1
          ELSE IF b[k][1] = "finpara" THEN d - 1
          ELSE d

\* every para is closed by its finpara
Nested(b) == OpenAfter(b, Len(b)) = 0

\* source line of the k-th statement of the body under study: the text is
\*   funcion f(p) / <body> / fin / inicio / leer x / fin      (scope fn:f)
\*   funcion f(p) / leer x / fin / inicio / <body> / fin      (scope main)
FirstLine(scope) == IF scope = "main" THEN 4 ELSE 1

WithLines(b, scope) ==
  [k \in 1 .. Len(b) |-> BodyLine(b[k][1], b[k][2], FirstLine(scope) + k)]

OtherBody(scope, n) ==
  << BodyLine("leer", "x", IF scope = "main" THEN 2 ELSE n + 4) >>

\* what parsePseudocodeText hands to the emitters
TFunctions ==
  << [name |-> "f", params |-> <<"p">>, headerLine |-> 1,
      body |-> IF tScope = "main" THEN OtherBody(tScope, Len(tBody)) ELSE tBody] >>
TMainBody == IF tScope = "main" THEN tBody ELSE OtherBody(tScope, Len(tBody))
TScopeVars == buildScopeVars(TFunctions, TMainBody)

\* ---- buildJsCode: emitted lines.  op is the statement emitted, name the
\* variable it names, line/vars/out the arguments of a __trace call (out = 0:
\* no third argument; out = n: the variable __out<n-1>), at the position in
\* the body of the statement the line was emitted for (0: the wrapper).
JsLine(op, name, at) ==
  [op |-> op, name |-> name, line |-> 0, vars |-> <<>>, out |-> 0, at |-> at]
JsTrace(line, snapshot, out, at) ==
  [op |-> "trace", name |-> "", line |-> line, vars |-> snapshot, out |-> out, at |-> at]

\* variant that also clears in the main section
EmitJsVolver_AlwaysClears(entry, at, scope, sv, clear) ==
  << JsTrace(entry.line, buildTraceArray(sv, scope, "cleared"), 0, at),
     JsLine("return", "", at) >>

\* `volver`: clear is the clearVars argument ([set |-> FALSE]: null)
EmitJsVolver(entry, at, scope, sv, clear) ==
  (IF clear.set THEN << JsTrace(entry.line, clear.vars, 0, at) >> ELSE << >>)
    \o << JsLine("return", "", at) >>

\* variant whose trace call precedes the statement
EmitJsStmt_TraceFirst(entry, at, scope, sv, clear, outputVars, outIndex) ==
  CASE entry.k \in {"leer", "leerArr", "arreglo"} ->
         << JsTrace(entry.line, buildTraceArrayFor(sv, scope, {entry.n}, "value"), 0, at),
            JsLine(entry.k, entry.n, at) >>
    [] entry.k = "para" ->
         << JsTrace(entry.line, buildTraceArrayFor(sv, scope, {entry.n}, "force"), 0, at),
            JsLine("for", entry.n, at) >>
    [] entry.k = "finpara" -> << JsLine("close", "", at) >>
    [] entry.k = "escribir" ->
         << [JsLine("const", "", at) EXCEPT !.out = outIndex + 1],
            JsTrace(entry.line, outputVars, outIndex + 1, at),
            [JsLine("write", "", at) EXCEPT !.out = outIndex + 1] >>
    [] entry.k = "volver" -> EmitJsVolver(entry, at, scope, sv, clear)

\* the body.forEach callback of emitJsBody, for one entry
EmitJsStmt(entry, at, scope, sv, clear, outputVars, outIndex) ==
  CASE entry.k = "arreglo" ->
         << JsLine("arreglo", entry.n, at),
            JsTrace(entry.line, buildTraceArrayFor(sv, scope, {entry.n}, "value"), 0, at) >>
    [] entry.k \in {"leer", "leerArr"} ->
         << JsLine(entry.k, entry.n, at),
            JsTrace(entry.line, buildTraceArrayFor(sv, scope, {entry.n}, "value"), 0, at) >>
    [] entry.k = "para" ->
         << JsLine("for", entry.n, at),
            JsTrace(entry.line, buildTraceArrayFor(sv, scope, {entry.n}, "force"), 0, at) >>
    [] entry.k = "finpara" -> << JsLine("close", "", at) >>
    [] entry.k = "escribir" ->
         << [JsLine("const", "", at) EXCEPT !.out = outIndex + 1],
            [JsLine("write", "", at) EXCEPT !.out = outIndex + 1],
            JsTrace(entry.line, outputVars, outIndex + 1, at) >>
    [] entry.k = "volver" -> EmitJsVolver(entry, at, scope, sv, clear)

\* emitJsBody; outIndex counts the escribir statements emitted so far
RECURSIVE EmitJsFrom(_, _, _, _, _, _, _)
EmitJsFrom(body, k, scope, sv, clear, outputVars, outIndex) ==
  IF k > Len(body) THEN << >>
  ELSE EmitJsStmt(body[k], k, scope, sv, clear, outputVars, outIndex)
         \o EmitJsFrom(body, k + 1, scope, sv, clear, outputVars,
                       IF body[k].k = "escribir" THEN outIndex + 1 ELSE outIndex)

emitJsBody(body, clear, outputVars, scope, sv) ==
  EmitJsFrom(body, 1, scope, sv, clear, outputVars, 0)

\* locals: names added by `leer <name>` and by para headers
RECURSIVE LocalsFrom(_, _, _)
LocalsFrom(body, k, names) ==
  IF k > Len(body) THEN names
  ELSE LocalsFrom(body, k + 1,
                  IF body[k].k \in {"leer", "para"} THEN AddVar(names, body[k].n) ELSE names)

\* the `let <name>;` lines of a scope
LetLines(body, params) ==
  LET locals == LocalsFrom(body, 1, << >>)
      keep == SelectSeq(locals, LAMBDA n : \A j \in 1 .. Len(params) : params[j] # n)
  IN [k \in 1 .. Len(keep) |-> JsLine("let", keep[k], 0)]

\* the lines of buildJsCode for one function, inside `async function f(p) {`
JsFunction(fn, sv) ==
  LET scope == ScopeKey(fn.name)
      traceVars == buildTraceArray(sv, scope, "value")
      clearVars == [set |-> TRUE, vars |-> buildTraceArray(sv, scope, "cleared")]
      outputVars == buildTraceArray(sv, scope, "empty")
  IN LetLines(fn.body, fn.params)
       \o << JsTrace(fn.headerLine, traceVars, 0, 0) >>
       \o emitJsBody(fn.body, clearVars, outputVars, scope, sv)

\* the lines of buildJsCode inside `async function __main() {`
JsMain(body, sv) ==
  LetLines(body, << >>)
    \o emitJsBody(body, [set |-> FALSE, vars |-> << >>],
                  buildTraceArray(sv, "main", "empty"), "main", sv)

\* ---- buildCCode: emitted lines of a body
CLine(op, name, at) == [op |-> op, name |-> name, at |-> at]

EmitCStmt(entry, at) ==
  CASE entry.k = "arreglo" -> CLine("arreglo", entry.n, at)
    [] entry.k \in {"leer", "leerArr"} -> CLine("scanf", entry.n, at)
    [] entry.k = "para" -> CLine("for", entry.n, at)
    [] entry.k = "finpara" -> CLine("close", "", at)
    [] entry.k = "escribir" -> CLine("printf", "", at)
    [] entry.k = "volver" -> CLine("return", "", at)

emitBody(body) == [k \in 1 .. Len(body) |-> EmitCStmt(body[k], k)]

\* ---- running the instrumented lines of the scope

\* run-time values: undefined, a string, a number, an array (s: its first
\* element)
Val(kind, str, num) == [kind |-> kind, s |-> str, n |-> num]
Undefined == Val("undef", "", 0)
Str(str) == Val("str", str, 0)
Num(num) == Val("num", "", num)
Arr(first) == Val("arr", first, 0)

\* a `let a = Array(..)` binding of a block: absent from the block ("none"),
\* not yet initialised ("tdz"), or holding the array
NoBinding == [st |-> "none", val |-> Undefined]
Tdz == [st |-> "tdz", val |-> Undefined]
Bound(v) == [st |-> "init", val |-> v]

\* the `for (...) {` line that directly encloses line j (0: the function)
RECURSIVE EnclosingFor(_, _, _)
EnclosingFor(code, j, depth) ==
  IF j < 1 THEN 0
  ELSE IF code[j].op = "close" THEN EnclosingFor(code, j - 1, depth + 1)
  ELSE IF code[j].op = "for"
       THEN (IF depth = 0 THEN j ELSE EnclosingFor(code, j - 1, depth - 1))
  ELSE EnclosingFor(code, j - 1, depth)

\* the `}` that closes the for at line f
RECURSIVE CloseOf(_, _, _)
CloseOf(code, j, depth) ==
  IF j > Len(code) THEN Len(code) + 1
  ELSE IF code[j].op = "for" THEN CloseOf(code, j + 1, depth + 1)
  ELSE IF code[j].op = "close"
       THEN (IF depth = 0 THEN j ELSE CloseOf(code, j + 1, depth - 1))
  ELSE CloseOf(code, j + 1, depth)

\* the block of line f (0: the function body) declares an array itself
DeclaresArray(code, f) ==
  \E j \in 1 .. Len(code) :
     code[j].op = "arreglo" /\ EnclosingFor(code, j - 1, 0) = f

\* two `let a` in one block: new Function(...) rejects the text
Compiles(code) ==
  \A i, j \in 1 .. Len(code) :
     (i < j /\ code[i].op = "arreglo" /\ code[j].op = "arreglo"
        /\ code[i].name = code[j].name)
       => EnclosingFor(code, i - 1, 0) # EnclosingFor(code, j - 1, 0)

FreshBlock(code, f) == IF DeclaresArray(code, f) THEN Tdz ELSE NoBinding

\* bindings on entry of the scope: p is the argument of f, the `let` names
\* are undefined
EntryEnv(code) ==
  [x |-> Undefined, y |-> Undefined, v |-> Undefined, p |-> Str("a"),
   a |-> FreshBlock(code, 0), frames |-> << >>]

\* the header `for (let v = 1; 1 <= 2 ? v <= 2 : v >= 2; v += 1 <= 2 ? 1 : -1)`
TraceLoop == JsPara("v", <<"1">>, <<"2">>)
TraceLoopTest(v) ==
  IF Eval(TraceLoop.start, [v |-> v]) <= Eval(TraceLoop.end, [v |-> v])
  THEN v <= Eval(TraceLoop.end, [v |-> v])
  ELSE v >= Eval(TraceLoop.end, [v |-> v])
TraceLoopStep(v) ==
  IF Eval(TraceLoop.start, [v |-> v]) <= Eval(TraceLoop.end, [v |-> v]) THEN 1 ELSE -1

\* the binding of `a` visible in the innermost block
RECURSIVE ArrayFrom(_, _)
ArrayFrom(env, k) ==
  IF k = 0 THEN env.a
  ELSE IF env.frames[k].a.st # "none" THEN env.frames[k].a
  ELSE ArrayFrom(env, k - 1)
ArrayBinding(env) == ArrayFrom(env, Len(env.frames))

\* the binding a name resolves to
Lookup(env, name) ==
  CASE name = "a" -> ArrayBinding(env)
    [] name = "v" -> IF env.frames # << >> THEN Bound(Num(Last(env.frames).v))
                     ELSE Bound(env.v)
    [] name = "x" -> Bound(env.x)
    [] name = "y" -> Bound(env.y)
    [] name = "p" -> Bound(env.p)

\* evaluating an entry of a snapshot array throws
EntryThrows(e, env) ==
  /\ e.form # "empty"
  /\ \/ Lookup(env, e.name).st = "tdz"
     \/ e.form \in {"cleared", "force"} /\ Lookup(env, e.name).st = "none"

\* its value otherwise: "" for the literal and for `typeof name === "undefined"`
EntryValue(e, env) ==
  IF e.form = "empty" THEN [form |-> "empty", val |-> Str("")]
  ELSE LET b == Lookup(env, e.name)
       IN IF e.form = "value" /\ (b.st = "none" \/ b.val.kind = "undef")
          THEN [form |-> "value", val |-> Str("")]
          ELSE [form |-> e.form, val |-> b.val]

\* the "" a snapshot shows for a variable that has no value yet
Sentinel(v) == IF v.kind = "undef" THEN Str("") ELSE v

\* current value of every slot of the scope being run
CurrentValues(env) ==
  [k \in 1 .. Len(TScopeVars.variableSlots) |->
     LET slot == TScopeVars.variableSlots[k]
     IN IF slot.scope = tScope THEN Sentinel(Lookup(env, slot.name).val) ELSE Str("")]

\* one executed statement or __trace call
LogEntry(op, l, snapshot, cur) ==
  [op |-> op, line |-> l.line, at |-> l.at, name |-> l.name,
   vars |-> snapshot, out |-> l.out, cur |-> cur]

TAt(op) == tpc = "run" /\ tLine \in 1 .. Len(tCode) /\ tCode[tLine].op = op

Goto(l) ==
  /\ tLine' = l
  /\ tpc' = IF l > Len(tCode) THEN "done" ELSE "run"

Throw ==
  /\ tpc' = "threw"
  /\ UNCHANGED <<tLine, tEnv, tLog>>

\* buildJsCode and buildCCode on a program whose main section is the body
TEmitMain ==
  /\ tpc = "src" /\ tScope = "main"
  /\ TOthers
  /\ LET code == JsMain(TMainBody, TScopeVars)
     IN /\ tCode' = code
        /\ tCCode' = emitBody(TMainBody)
        /\ tpc' = IF Compiles(code) THEN "run" ELSE "nocompile"
        /\ tEnv' = EntryEnv(code)
  /\ tLine' = 1
  /\ UNCHANGED <<tScope, tBody, tLog>>

\* the same on a program whose function f has the body
TEmitFn ==
  /\ tpc = "src" /\ tScope = "fn:f"
  /\ TOthers
  /\ LET code == JsFunction(TFunctions[1], TScopeVars)
     IN /\ tCode' = code
        /\ tCCode' = emitBody(TFunctions[1].body)
        /\ tpc' = IF Compiles(code) THEN "run" ELSE "nocompile"
        /\ tEnv' = EntryEnv(code)
  /\ tLine' = 1
  /\ UNCHANGED <<tScope, tBody, tLog>>

\* let <name>;
TLet ==
  /\ TAt("let")
  /\ TOthers
  /\ Goto(tLine + 1)
  /\ UNCHANGED <<tScope, tBody, tCode, tCCode, tEnv, tLog>>

\* __trace(line, [entries], out): the array is evaluated, then the hook runs
TTraceCall ==
  /\ TAt("trace")
  /\ TOthers
  /\ LET l == tCode[tLine]
     IN IF \E k \in 1 .. Len(l.vars) : EntryThrows(l.vars[k], tEnv)
        THEN Throw
        ELSE /\ tLog' = Append(tLog,
                  LogEntry("trace", l,
                           [k \in 1 .. Len(l.vars) |-> EntryValue(l.vars[k], tEnv)],
                           CurrentValues(tEnv)))
             /\ Goto(tLine + 1)
             /\ UNCHANGED tEnv
  /\ UNCHANGED <<tScope, tBody, tCode, tCCode>>

\* let a = Array(2).fill(0);
TArreglo ==
  /\ TAt("arreglo")
  /\ TOthers
  /\ LET n == Len(tEnv.frames)
     IN tEnv' = IF n = 0 THEN [tEnv EXCEPT !.a = Bound(Arr("0"))]
                ELSE [tEnv EXCEPT !.frames[n].a = Bound(Arr("0"))]
  /\ tLog' = Append(tLog, LogEntry("arreglo", tCode[tLine], << >>, << >>))
  /\ Goto(tLine + 1)
  /\ UNCHANGED <<tScope, tBody, tCode, tCCode>>

\* <name> = await __readLine("<name>");
TLeer ==
  /\ TAt("leer")
  /\ TOthers
  /\ \E val \in InputValues :
       tEnv' = IF tCode[tLine].name = "x" THEN [tEnv EXCEPT !.x = Str(val)]
               ELSE [tEnv EXCEPT !.y = Str(val)]
  /\ tLog' = Append(tLog, LogEntry("leer", tCode[tLine], << >>, << >>))
  /\ Goto(tLine + 1)
  /\ UNCHANGED <<tScope, tBody, tCode, tCCode>>

\* a[(1) - 1] = await __readLine("a");
TLeerArr ==
  /\ TAt("leerArr")
  /\ TOthers
  /\ IF ArrayBinding(tEnv).st # "init"
     THEN Throw
     ELSE /\ \E val \in InputValues :
               LET n == CHOOSE k \in 0 .. Len(tEnv.frames) :
                           /\ k > 0 => tEnv.frames[k].a.st = "init"
                           /\ \A j \in (k + 1) .. Len(tEnv.frames) :
                                 tEnv.frames[j].a.st = "none"
               IN tEnv' = IF n = 0 THEN [tEnv EXCEPT !.a = Bound(Arr(val))]
                          ELSE [tEnv EXCEPT !.frames[n].a = Bound(Arr(val))]
          /\ tLog' = Append(tLog, LogEntry("leerArr", tCode[tLine], << >>, << >>))
          /\ Goto(tLine + 1)
  /\ UNCHANGED <<tScope, tBody, tCode, tCCode>>

\* for (let v = 1; ...) {   reached from above
TFor ==
  /\ TAt("for")
  /\ TOthers
  /\ LET v0 == Eval(TraceLoop.init, [v |-> 0])
     IN IF TraceLoopTest(v0)
        THEN /\ tEnv' = [tEnv EXCEPT !.frames =
                            Append(@, [for |-> tLine, v |-> v0,
                                       a |-> FreshBlock(tCode, tLine)])]
             /\ tLog' = Append(tLog, LogEntry("iter", tCode[tLine], << >>, << >>))
             /\ Goto(tLine + 1)
        ELSE /\ Goto(CloseOf(tCode, tLine + 1, 0) + 1)
             /\ UNCHANGED <<tEnv, tLog>>
  /\ UNCHANGED <<tScope, tBody, tCode, tCCode>>

\* }   the increment, the test, and the next iteration or the exit
TClose ==
  /\ TAt("close")
  /\ tEnv.frames # << >>
  /\ TOthers
  /\ LET fr == Last(tEnv.frames)
         v1 == fr.v + TraceLoopStep(fr.v)
     IN IF TraceLoopTest(v1)
        THEN /\ tEnv' = [tEnv EXCEPT !.frames =
                            ReplaceLast(@, [for |-> fr.for, v |-> v1,
                                            a |-> FreshBlock(tCode, fr.for)])]
             /\ tLog' = Append(tLog, LogEntry("iter", tCode[fr.for], << >>, << >>))
             /\ Goto(fr.for + 1)
        ELSE /\ tEnv' = [tEnv EXCEPT !.frames = Front(@)]
             /\ Goto(tLine + 1)
             /\ UNCHANGED tLog
  /\ UNCHANGED <<tScope, tBody, tCode, tCCode>>

\* const __out<n> = "hola";
TConst ==
  /\ TAt("const")
  /\ TOthers
  /\ Goto(tLine + 1)
  /\ UNCHANGED <<tScope, tBody, tCode, tCCode, tEnv, tLog>>

\* __write(__out<n>);
TWrite ==
  /\ TAt("write")
  /\ TOthers
  /\ tLog' = Append(tLog, LogEntry("write", tCode[tLine], << >>, << >>))
  /\ Goto(tLine + 1)
  /\ UNCHANGED <<tScope, tBody, tCode, tCCode, tEnv>>

\* return;
TReturn ==
  /\ TAt("return")
  /\ TOthers
  /\ tpc' = "done"
  /\ UNCHANGED <<tScope, tBody, tCode, tCCode, tLine, tEnv, tLog>>

TraceInit ==
  /\ tpc = "src"
  /\ tScope \in {"main", "fn:f"}
  /\ \E n \in 1 .. MaxStmts :
       \E b \in [1 .. n -> TraceStmts] :
          Nested(b) /\ tBody = WithLines(b, tScope)
  /\ tCode = << >>
  /\ tCCode = << >>
  /\ tLine = 0
  /\ tEnv = << >>
  /\ tLog = << >>

TraceIdle ==
  /\ tpc = "off"
  /\ tScope = "main"
  /\ tBody = <<>>
  /\ tCode = <<>>
  /\ tCCode = <<>>
  /\ tLine = 0
  /\ tEnv = <<>>
  /\ tLog = <<>>

\* ---- the guard of `mientras(c)` in the instrumented code

CondTokens == {"a", "i", "[", "]", "!=", "0"}

RECURSIVE SeqsUpTo(_, _)
SeqsUpTo(S, n) ==
  IF n = 0 THEN {<<>>}
  ELSE LET shorter == SeqsUpTo(S, n - 1)
       IN shorter \cup {Append(q, x) : q \in shorter, x \in S}

\* the condition texts, with and without an index
CondTexts == SeqsUpTo(CondTokens, MaxCondLen) \ {<<>>}

\* emitJsBody on `mientras(c)`
WEmitJs ==
  /\ wpc = "src"
  /\ WOthers
  /\ wGuard' = EmitJs("mientras", wCond)
  /\ wpc' = "emitted"
  /\ UNCHANGED wCond

WhileInit ==
  /\ wpc = "src"
  /\ wCond \in CondTexts
  /\ wGuard = <<>>

WhileIdle ==
  /\ wpc = "off"
  /\ wCond = <<>>
  /\ wGuard = <<>>

GraphInit ==
  /\ gpc = "scan"
  /\ nodes = addNode(<<>>, "Inicio", "round")
  /\ edges = <<>>
  /\ current = 0
  /\ siStack = <<>>
  /\ loopStack = <<>>
  /\ gOpen = <<>>
  /\ gLen = 0

GraphIdle ==
  /\ gpc = "off"
  /\ nodes = <<>>
  /\ edges = <<>>
  /\ current = None
  /\ siStack = <<>>
  /\ loopStack = <<>>
  /\ gOpen = <<>>
  /\ gLen = 0

InitGraph == GraphInit /\ ParserIdle /\ RunnerIdle /\ IndexIdle /\ LoopIdle /\ RepeatIdle /\ TraceIdle /\ ScopeIdle /\ ArgsIdle /\ DeclIdle /\ AgainIdle /\ LabelIdle /\ ShapeIdle /\ WhileIdle

NextGraph ==
  \/ GMientras
  \/ GFinMientras
  \/ GPara
  \/ GFinPara
  \/ GRepetir
  \/ GHasta
  \/ GSi
  \/ GEntonces
  \/ GSino
  \/ GFinsi
  \/ GPlain
  \/ GFinish

SpecGraph == InitGraph /\ [][NextGraph]_vars

InitParser == ParserInit /\ GraphIdle /\ RunnerIdle /\ IndexIdle /\ LoopIdle /\ RepeatIdle /\ TraceIdle /\ ScopeIdle /\ ArgsIdle /\ DeclIdle /\ AgainIdle /\ LabelIdle /\ ShapeIdle /\ WhileIdle

NextParser ==
  \/ PPrograma
  \/ PFuncion
  \/ PFuncionMal
  \/ PInicio
  \/ PMientras
  \/ PFinMientras
  \/ PPara
  \/ PFinPara
  \/ PRepetir
  \/ PHasta
  \/ PSi
  \/ PDeclArreglo
  \/ PEntonces
  \/ PSino
  \/ PFinsi
  \/ PFin
  \/ PPlain
  \/ PBlank
  \/ PEndScan

InitScope == ScopeInit /\ GraphIdle /\ ParserIdle /\ RunnerIdle /\ IndexIdle /\ LoopIdle /\ RepeatIdle /\ TraceIdle /\ ArgsIdle /\ DeclIdle /\ AgainIdle /\ LabelIdle /\ ShapeIdle /\ WhileIdle

NextScope ==
  \/ VFuncion
  \/ VFnStmt
  \/ VMainStmt
  \/ VBuild

SpecScope == InitScope /\ [][NextScope]_vars

InitArgs == ArgsInit /\ GraphIdle /\ ParserIdle /\ RunnerIdle /\ IndexIdle /\ LoopIdle /\ RepeatIdle /\ TraceIdle /\ ScopeIdle /\ DeclIdle /\ AgainIdle /\ LabelIdle /\ ShapeIdle /\ WhileIdle

NextArgs ==
  \/ AConsume
  \/ AReturn

SpecArgs == InitArgs /\ [][NextArgs]_vars

InitDecl == DeclInit /\ GraphIdle /\ ParserIdle /\ RunnerIdle /\ IndexIdle /\ LoopIdle /\ RepeatIdle /\ TraceIdle /\ ScopeIdle /\ ArgsIdle /\ AgainIdle /\ LabelIdle /\ ShapeIdle /\ WhileIdle

NextDecl ==
  \/ DEmitC
  \/ DEmitJs

SpecDecl == InitDecl /\ [][NextDecl]_vars

InitAgain == AgainInit /\ ParserInit /\ GraphIdle /\ RunnerIdle /\ IndexIdle /\ LoopIdle /\ RepeatIdle /\ TraceIdle /\ ScopeIdle /\ ArgsIdle /\ DeclIdle /\ LabelIdle /\ ShapeIdle /\ WhileIdle

NextAgain ==
  \/ YScan
  \/ YEndScan
  \/ YReturn

SpecAgain == InitAgain /\ [][NextAgain]_vars

InitLabel == LabelInit /\ GraphIdle /\ ParserIdle /\ RunnerIdle /\ IndexIdle /\ LoopIdle /\ RepeatIdle /\ TraceIdle /\ ScopeIdle /\ ArgsIdle /\ DeclIdle /\ AgainIdle /\ ShapeIdle /\ WhileIdle

NextLabel ==
  \/ SPass

SpecLabel == InitLabel /\ [][NextLabel]_vars

InitShape == ShapeInit /\ GraphIdle /\ ParserIdle /\ RunnerIdle /\ IndexIdle /\ LoopIdle /\ RepeatIdle /\ TraceIdle /\ ScopeIdle /\ ArgsIdle /\ DeclIdle /\ AgainIdle /\ LabelIdle /\ WhileIdle

NextShape ==
  \/ KParser
  \/ KFlow
  \/ KC
  \/ KJs
  \/ KMermaid

SpecShape == InitShape /\ [][NextShape]_vars

SpecParser == InitParser /\ [][NextParser]_vars

\* a mientras loop as the flow graph and as the instrumented code have it:
\* the graph of a body, or the loop header of a condition text
InitMientras ==
  /\ \/ GraphInit /\ WhileIdle
     \/ GraphIdle /\ WhileInit
  /\ ParserIdle /\ RunnerIdle /\ IndexIdle /\ LoopIdle /\ RepeatIdle /\ TraceIdle
  /\ ScopeIdle /\ ArgsIdle /\ DeclIdle /\ AgainIdle /\ LabelIdle /\ ShapeIdle

NextMientras ==
  \/ NextGraph
  \/ WEmitJs

SpecMientras == InitMientras /\ [][NextMientras]_vars

InitIndent == InitParser

NextIndent == IScan

SpecIndent == InitIndent /\ [][NextIndent]_vars

InitRunner == RunnerInit /\ GraphIdle /\ ParserIdle /\ IndexIdle /\ LoopIdle /\ RepeatIdle /\ TraceIdle /\ ScopeIdle /\ ArgsIdle /\ DeclIdle /\ AgainIdle /\ LabelIdle /\ ShapeIdle /\ WhileIdle

NextRunner ==
  \/ ExecuteProgram
  \/ SubmitInput
  \/ ClearConsole

SpecRunner == InitRunner /\ [][NextRunner]_vars

InitIndex == IndexInit /\ GraphIdle /\ ParserIdle /\ RunnerIdle /\ LoopIdle /\ RepeatIdle /\ TraceIdle /\ ScopeIdle /\ ArgsIdle /\ DeclIdle /\ AgainIdle /\ LabelIdle /\ ShapeIdle /\ WhileIdle

NextIndex ==
  \/ IEmitC
  \/ IEmitJs
  \/ IRun

SpecIndex == InitIndex /\ [][NextIndex]_vars

InitLoop == LoopInit /\ GraphIdle /\ ParserIdle /\ RunnerIdle /\ IndexIdle /\ RepeatIdle /\ TraceIdle /\ ScopeIdle /\ ArgsIdle /\ DeclIdle /\ AgainIdle /\ LabelIdle /\ ShapeIdle /\ WhileIdle

NextLoop ==
  \/ CForInit
  \/ CForTest
  \/ CForBody
  \/ JsForInit
  \/ JsForTest
  \/ JsForBody

SpecLoop == InitLoop /\ [][NextLoop]_vars

InitRepeat == RepeatInit /\ GraphIdle /\ ParserIdle /\ RunnerIdle /\ IndexIdle /\ LoopIdle /\ TraceIdle /\ ScopeIdle /\ ArgsIdle /\ DeclIdle /\ AgainIdle /\ LabelIdle /\ ShapeIdle /\ WhileIdle

NextRepeat ==
  \/ QEmitC
  \/ QEmitJs
  \/ QDo
  \/ QRead
  \/ QWrite
  \/ QTest

SpecRepeat == InitRepeat /\ [][NextRepeat]_vars

InitTrace == TraceInit /\ GraphIdle /\ ParserIdle /\ RunnerIdle /\ IndexIdle /\ LoopIdle /\ RepeatIdle /\ ScopeIdle /\ ArgsIdle /\ DeclIdle /\ AgainIdle /\ LabelIdle /\ ShapeIdle /\ WhileIdle

NextTrace ==
  \/ TEmitMain
  \/ TEmitFn
  \/ TLet
  \/ TTraceCall
  \/ TArreglo
  \/ TLeer
  \/ TLeerArr
  \/ TFor
  \/ TClose
  \/ TConst
  \/ TWrite
  \/ TReturn

SpecTrace == InitTrace /\ [][NextTrace]_vars

\* the emitted loops are straight-line synchronous code: a loop that can take
\* its next step takes it
SpecLoopFair ==
  /\ InitLoop
  /\ [][NextLoop]_vars
  /\ WF_vars(CForInit \/ CForTest \/ CForBody)
  /\ WF_vars(JsForInit \/ JsForTest \/ JsForBody)

\* ------------------------------------------------------- graph properties

NodeIds == 0 .. (Len(nodes) - 1)
EdgeSet == {edges[k] : k \in 1 .. Len(edges)}
EndId == Len(nodes) - 1
HasOut(n) == \E e \in EdgeSet : e.from = n

RECURSIVE ReachFrom(_)
ReachFrom(S) ==
  LET S2 == S \cup {e.to : e \in {x \in EdgeSet : x.from \in S}}
  IN IF S2 = S THEN S ELSE ReachFrom(S2)

\* C1: in the finished graph of a valid main body every node other than the
\* final 'Fin' node has at least one outgoing edge.
C1_EveryNodeHasOutgoingEdge ==
  gpc = "done" => \A n \in NodeIds \ {EndId} : HasOut(n)

\* C2: in the finished graph of a valid main body every declared node is
\* reachable from the start node N0 along the emitted edges.
C2_AllReachable ==
  gpc = "done" => ReachFrom({0}) = NodeIds

\* a finished graph that holds a join node and a loop after-node
C2_Witness ==
  /\ gpc = "done"
  /\ \E i, j \in 1 .. Len(nodes) :
       /\ nodes[i].label = "Fin si"
       /\ nodes[j].label \in {"Fin mientras", "Fin para", "Fin repetir"}

\* ------------------------------------------------------ parser properties

IsMismatch(d) ==
  d.message \in {"Hay un finmientras sin mientras", "Hay un finpara sin para",
                 "Hay un hasta sin repetir", "Hay un finsi sin si",
                 "Hay un fin sin bloque abierto",
                 "Bloque abierto con un cierre incorrecto"}
IsUnclosed(d) == d.message = "Falta cerrar el bloque con"
DiagIdx == 1 .. Len(diagnostics)

\* the source is balanced: every opener was closed by its own closer, in
\* nested order, and no closer came without its opener
SrcBalanced == srcOk /\ srcOpen = <<>>

\* C3: after the scan of a balanced source the diagnostics hold neither a
\* mismatched-closer error nor an unclosed-block error.
C3_BalancedNoBlockErrors ==
  (ppc = "done" /\ SrcBalanced) =>
     \A k \in DiagIdx : ~IsMismatch(diagnostics[k]) /\ ~IsUnclosed(diagnostics[k])

\* a scanned balanced source with a loop or conditional closed inside `inicio`
C3_Witness ==
  /\ ppc = "done" /\ SrcBalanced
  /\ hasInicio
  /\ \E k \in 1 .. Len(mainBody) :
        mainBody[k].text \in {"finmientras", "finpara", "hasta", "finsi"}

\* the closer the claim names for each kind of frame
C4_Closer(type) ==
  CASE type = "funcion" -> "fin"
    [] type = "inicio" -> "fin"
    [] type = "mientras" -> "finmientras"
    [] type = "para" -> "finpara"
    [] type = "si" -> "finsi"
    [] type = "repetir" -> "hasta(...)"

UnclosedIdx == {k \in DiagIdx : IsUnclosed(diagnostics[k])}

\* C4: at the end of the scan there is exactly one unclosed-block error per
\* frame left on the nesting stack, in stack order, each at its frame's line
\* and naming the closer of its frame's kind.
C4_OneUnclosedErrorPerFrame ==
  ppc = "done" =>
    /\ Cardinality(UnclosedIdx) = Len(blockStack)
    /\ \A j \in 1 .. Len(blockStack) :
         \E k \in UnclosedIdx :
           /\ Cardinality({i \in UnclosedIdx : i <= k}) = j
           /\ diagnostics[k].line = blockStack[j].line
           /\ diagnostics[k].severity = "error"
           /\ diagnostics[k].token = C4_Closer(blockStack[j].type)

\* a scan that ends with two frames of different kinds still open
C4_Witness ==
  /\ ppc = "done"
  /\ Len(blockStack) >= 2
  /\ blockStack[1].type # blockStack[2].type
  /\ \E k \in 1 .. Len(blockStack) : blockStack[k].type \in {"mientras", "para"}

\* ------------------------------------------------------ runner properties

InFlight == {r \in 1 .. Len(runs) : runs[r] = "suspended"}
Pending == {i \in 1 .. Len(reads) : reads[i].state = "pending"}
RunnerState == <<runnerPromise, waitingResolver, console, runs, reads>>

\* C5: at most one run is in flight, and a Run request handled while a run
\* is outstanding leaves the console, the stored resolver, the stored promise
\* and the runs untouched.
C5_SingleRunInFlight ==
  /\ [](Cardinality(InFlight) <= 1)
  /\ [][(runnerPromise # None /\ lastEvent' = "run") => UNCHANGED RunnerState]_vars

\* a Run request was ignored while a run waits for input
C5_Witness ==
  /\ lastEvent = "run" /\ lastOutcome = "ignored"
  /\ InFlight # {} /\ waitingResolver # None

C8_FailureReportedAndIdle ==
  lastOutcome = "failed" =>
    /\ Len(console) >= 2
    /\ console[Len(console) - 1] = "Error"
    /\ console[Len(console)] = "> Fin de la ejecucion"
    /\ runnerPromise = None
    /\ waitingResolver = None
    /\ InFlight = {}

\* a program failed after it had been resumed from a read
C8_Witness ==
  /\ lastOutcome = "failed" /\ lastEvent = "submit"
  /\ \E i \in 1 .. Len(reads) : reads[i].state = "resolved"

\* ----------------------------------------------------- emitter properties

Ascending(first, last) == [k \in 1 .. (last - first + 1) |-> first + k - 1]

\* C9: for S <= E both emitted loops, run to completion, give the body the
\* values S, S+1, ..., E of v in that order, and name[v] addresses the same
\* elements in both.
C9_SameCountedLoop ==
  (lpc["c"] = "done" /\ lpc["js"] = "done" /\ loopS <= loopE) =>
     /\ lvals["c"] = Ascending(loopS, loopE)
     /\ lvals["js"] = Ascending(loopS, loopE)
     /\ lelems["c"] = lelems["js"]

\* C10: for an index i in 1..N the emitted access addresses element i - 1,
\* which lies inside the array, and its subscript is the written index
\* wrapped once: ( index ) - 1.
C10_IndexTranslatedOnce ==
  ipc = "done" =>
     /\ elem = iIndex - 1
     /\ elem \in 0 .. (iSize - 1)
     /\ Subscript(emitted) = <<"(", IndexTok, ")", "-", "1">>

\* `leer a[1]` with the largest declared size, emitted as C: element 0
C10_Witness ==
  /\ ipc = "done"
  /\ iCtx = "leer" /\ iEmitter = "c" /\ iForm = "literal"
  /\ iIndex = 1 /\ iSize = MaxSize /\ iSize > 1
  /\ elem = 0

\* S, S+1, ..., E when S <= E; S, S-1, ..., E when S > E
Stepping(first, last) ==
  IF first <= last
  THEN [k \in 1 .. (last - first + 1) |-> first + k - 1]
  ELSE [k \in 1 .. (first - last + 1) |-> first - k + 1]

Abs(n) == IF n < 0 THEN -n ELSE n

IsPrefix(s, t) == Len(s) <= Len(t) /\ s = SubSeq(t, 1, Len(s))

\* C11: the loop emitted by buildJsCode for `para v desde S hasta E hacer`
\* with integer bounds gives its body the values S, S+1, ..., E (S <= E) or
\* S, S-1, ..., E (S > E) of v, that is |E-S|+1 iterations, and then ends.
C11_JsLoopRunsRangeAndEnds ==
  /\ [](IsPrefix(lvals["js"], Stepping(loopS, loopE)))
  /\ [](lpc["js"] = "done" =>
          /\ lvals["js"] = Stepping(loopS, loopE)
          /\ Len(lvals["js"]) = Abs(loopE - loopS) + 1)
  /\ <>(lpc["js"] = "done")

\* a descending loop that has run to its end
C11_Witness ==
  /\ lpc["js"] = "done"
  /\ loopS = MaxLoopBound /\ loopE = 1 /\ loopS > loopE
  /\ Len(lvals["js"]) = loopS - loopE + 1
  /\ lvals["js"][Len(lvals["js"])] = loopE

\* C12: in the code either emitter gives for repetir ... hasta(c) the body
\* runs before c is first evaluated, c is evaluated once after each run of
\* the body, and the body is run again exactly when c was false: every
\* evaluation but the one the loop ends on is false, and that one is true.
C12_BodyFirstUntilTrue ==
  qpc \in {"run", "done"} =>
     /\ Len(qEvals) <= qBodies
     /\ qBodies <= Len(qEvals) + 1
     /\ \A k \in 1 .. Len(qEvals) :
           qEvals[k] <=> (k = Len(qEvals) /\ qpc = "done")
     /\ qpc = "done" => (qBodies >= 1 /\ Len(qEvals) = qBodies)

\* the condition holds before the loop and the body does not change it:
\* the body has still run once
C12_Witness ==
  /\ qpc = "done"
  /\ qBody = "escribir" /\ qi > qK
  /\ qBodies = 1 /\ qEvals = <<TRUE>>

\* --------------------------------------------------- instrumentation properties

TSlots == TScopeVars.variableSlots

\* trace calls made so far for a read, an array declaration, a counted-loop
\* header or a write of the body
StatementTraces ==
  {j \in 1 .. Len(tLog) :
     /\ tLog[j].op = "trace"
     /\ tLog[j].at >= 1
     /\ tBody[tLog[j].at].k \in {"leer", "leerArr", "arreglo", "para", "escribir"}}

EmptyEntry == [form |-> "empty", val |-> Str("")]

\* C13 as stated: every such snapshot has one entry per slot, the slots of
\* other scopes are empty, and every slot of the current scope holds the
\* current value of its variable (the sentinel "" when it has none).
C13_SnapshotShowsWholeScope ==
  \A j \in StatementTraces :
     /\ Len(tLog[j].vars) = Len(TSlots)
     /\ \A k \in 1 .. Len(TSlots) :
           IF TSlots[k].scope # tScope
           THEN tLog[j].vars[k] = EmptyEntry
           ELSE tLog[j].vars[k].val = tLog[j].cur[k]

\* C13 amended: every such snapshot has one entry per slot; after a read, an
\* array declaration or a counted-loop header the slot of the current scope
\* for the variable that statement names holds its current value (the
\* sentinel "" when it has none, the loop counter marked as forced) and every
\* other slot is empty; after a write every slot is empty.
C13_SnapshotShowsNamedVariable ==
  \A j \in StatementTraces :
     LET st == tBody[tLog[j].at]
     IN /\ Len(tLog[j].vars) = Len(TSlots)
        /\ \A k \in 1 .. Len(TSlots) :
              IF /\ TSlots[k].scope = tScope
                 /\ st.k # "escribir"
                 /\ TSlots[k].name = st.n
              THEN /\ tLog[j].vars[k].val = tLog[j].cur[k]
                   /\ tLog[j].vars[k].form = IF st.k = "para" THEN "force" ELSE "value"
              ELSE tLog[j].vars[k] = EmptyEntry

\* main section `leer x / leer y`: the snapshot after `leer y` shows y, and
\* the slot of x (which has a value) and the slot of f's x are empty
C13_Witness ==
  /\ tScope = "main"
  /\ \E j \in StatementTraces :
        /\ tBody[tLog[j].at].k = "leer" /\ tBody[tLog[j].at].n = "y"
        /\ \E k1, k2, k3 \in 1 .. Len(TSlots) :
              /\ TSlots[k1].scope = "main" /\ TSlots[k1].name = "y"
              /\ tLog[j].vars[k1].val.s \in InputValues
              /\ TSlots[k2].scope = "main" /\ TSlots[k2].name = "x"
              /\ tLog[j].cur[k2].s \in InputValues
              /\ tLog[j].vars[k2] = EmptyEntry
              /\ TSlots[k3].scope = "fn:f" /\ TSlots[k3].name = "x"
              /\ tLog[j].vars[k3] = EmptyEntry

\* statements the instrumentation follows with a trace call, and the emitted
\* line that carries out each
Traced == {"leer", "leerArr", "arreglo", "escribir", "para"}
ActingOp(kind) ==
  CASE kind = "escribir" -> "write" [] kind = "para" -> "for" [] OTHER -> kind

\* emitted lines of the k-th statement of the body
LinesOf(k) == {j \in 1 .. Len(tCode) : tCode[j].at = k}

\* executed form of a statement in the log (a loop header: one iteration start)
RanOp(kind) ==
  CASE kind = "escribir" -> "write" [] kind = "para" -> "iter" [] OTHER -> kind

\* C14: in the instrumented code the line that carries out a read, an array
\* declaration, a write or a counted-loop header is directly followed by the
\* only trace call of that statement, which carries the statement's source
\* line and has an output argument exactly for a write, namely the variable
\* just written; when the code runs, every execution of such a statement and
\* every start of a loop iteration is directly followed by that trace call.
C14_OneTraceAfterEachStatement ==
  /\ tpc # "src" =>
       \A k \in 1 .. Len(tBody) :
          tBody[k].k \in Traced =>
             \E j \in LinesOf(k) :
                /\ tCode[j].op = ActingOp(tBody[k].k)
                /\ j + 1 \in LinesOf(k)
                /\ tCode[j + 1].op = "trace"
                /\ tCode[j + 1].line = tBody[k].line
                /\ tCode[j + 1].line = FirstLine(tScope) + k
                /\ \A i \in LinesOf(k) : tCode[i].op = "trace" => i = j + 1
                /\ \A i \in LinesOf(k) : i <= j + 1
                /\ IF tBody[k].k = "escribir"
                   THEN tCode[j + 1].out # 0 /\ tCode[j + 1].out = tCode[j].out
                   ELSE tCode[j + 1].out = 0
  /\ \A j \in 1 .. Len(tCode) :
        (tCode[j].op = "trace" /\ tCode[j].out # 0)
           => (tCode[j].at >= 1 /\ tBody[tCode[j].at].k = "escribir")
  /\ \A j \in 1 .. Len(tLog) :
        LET e == tLog[j]
        IN IF e.op = "trace"
           THEN (e.at >= 1 /\ tBody[e.at].k \in Traced) =>
                   /\ j > 1
                   /\ tLog[j - 1].at = e.at
                   /\ tLog[j - 1].op = RanOp(tBody[e.at].k)
                   /\ e.line = tBody[e.at].line
                   /\ (e.out # 0) = (tBody[e.at].k = "escribir")
                   /\ e.out = tLog[j - 1].out
           ELSE IF j < Len(tLog)
                THEN tLog[j + 1].op = "trace" /\ tLog[j + 1].at = e.at
                ELSE \/ tpc \in {"run", "threw"} /\ tCode[tLine].op = "trace"
                                                 /\ tCode[tLine].at = e.at

\* `para v desde 1 hasta 2 hacer / escribir "hola" / finpara` run to its end:
\* two iterations, each starting with the header's trace call, and two writes
\* each followed by a trace call that passes the output
C14_Witness ==
  /\ tpc = "done"
  /\ Len(tLog) = 8
  /\ \A j \in {1, 5} :
        /\ tLog[j].op = "iter" /\ tLog[j + 1].op = "trace" /\ tLog[j + 1].out = 0
        /\ tLog[j + 2].op = "write" /\ tLog[j + 3].op = "trace"
        /\ tLog[j + 3].out # 0
        /\ tLog[j + 3].line = tLog[j + 1].line + 1

\* the snapshot that marks every variable of the scope as cleared
ClearedSnapshot(scope) ==
  [k \in 1 .. Len(TSlots) |->
     IF TSlots[k].scope = scope THEN Entry("cleared", TSlots[k].name)
     ELSE Entry("empty", "")]

\* the instrumented lines of the k-th statement are the clearing trace call
\* and then the return
ClearsThenReturns(k) ==
  \E j \in 1 .. (Len(tCode) - 1) :
     /\ LinesOf(k) = {j, j + 1}
     /\ tCode[j].op = "trace"
     /\ tCode[j].line = tBody[k].line
     /\ tCode[j].out = 0
     /\ tCode[j].vars = ClearedSnapshot(tScope)
     /\ tCode[j + 1].op = "return"

\* they are the return alone
OnlyReturns(k) ==
  \E j \in 1 .. Len(tCode) : LinesOf(k) = {j} /\ tCode[j].op = "return"

\* the plain code has the return alone for it, and no trace call anywhere
PlainOnlyReturns(k) ==
  /\ \E j \in 1 .. Len(tCCode) :
        /\ {i \in 1 .. Len(tCCode) : tCCode[i].at = k} = {j}
        /\ tCCode[j].op = "return"
  /\ \A i \in 1 .. Len(tCCode) : tCCode[i].op # "trace"

Volvers == {k \in 1 .. Len(tBody) : tBody[k].k = "volver"}

\* C15 as stated: for every volver, in the main section as in a function,
\* the instrumented code has the clearing trace call directly before the
\* return, and the plain code only the return.
C15_EveryVolverClears ==
  tpc # "src" =>
     \A k \in Volvers : ClearsThenReturns(k) /\ PlainOnlyReturns(k)

\* C15 amended: for every volver of a function body the instrumented code
\* has, directly before the return, a trace call whose snapshot marks all
\* variables of that function as cleared; for a volver of the main section
\* it has only the return; the plain code has only the return in both.
C15_VolverClearsInFunctions ==
  tpc # "src" =>
     \A k \in Volvers :
        /\ IF tScope = "main" THEN OnlyReturns(k) ELSE ClearsThenReturns(k)
        /\ PlainOnlyReturns(k)

\* f(p) with body `leer x / volver`, run: the last call before the return
\* reported p and x as cleared
C15_Witness ==
  /\ tScope = "fn:f" /\ tpc = "done"
  /\ tLine \in 1 .. Len(tCode)
  /\ tCode[tLine].op = "return"
  /\ tLog # << >>
  /\ Last(tLog).op = "trace"
  /\ Last(tLog).at \in Volvers
  /\ Cardinality({k \in 1 .. Len(TSlots) : Last(tLog).vars[k].form = "cleared"}) = 2
  /\ \E k \in 1 .. Len(TSlots) :
        Last(tLog).vars[k].form = "cleared" /\ Last(tLog).vars[k].val.s \in InputValues \ {"a"}

\* ------------------------------------------------------------ unknown lines
\* the warnings among a list of diagnostics
Warnings(ds) == SelectSeq(ds, LAMBDA d : d.severity = "warning")

\* the shapes no recognizer knows: no keyword leads them and they are not
\* call-like
UnknownShapes == {"otro", "arregloKw"}

\* the entry the scan stores for the line being read
Opaque(kind) == [text |-> kind, line |-> lineIdx + 1]

\* the line is kept at the end of the body of the scope it lies in
KeptInScope(kind) ==
  IF currentFunction # None
  THEN /\ functions' = [functions EXCEPT ![currentFunction].body = Append(@, Opaque(kind))]
       /\ mainBody' = mainBody
  ELSE IF inMain
  THEN /\ mainBody' = Append(mainBody, Opaque(kind))
       /\ functions' = functions
  ELSE /\ mainBody' = mainBody
       /\ functions' = functions

MissingInicio(ds) == SelectSeq(ds, LAMBDA d : d.message = "Falta la seccion inicio")

\* C17: the missing-main-section error is reported exactly once when no line
\* of the source is `inicio` and not at all otherwise, whatever the block
\* stack, the active function and the indent level are when the scan ends.
C17_MissingInicioOnceIffNoInicio ==
  /\ ppc = "scan" => MissingInicio(diagnostics) = <<>>
  /\ ppc = "done" =>
       /\ Len(MissingInicio(diagnostics)) = (IF hasInicio THEN 0 ELSE 1)
       /\ MissingInicio(diagnostics) # <<>> =>
            /\ Last(diagnostics) = Diag(0, "error", "Falta la seccion inicio", 0)
            /\ Len(MissingInicio(Front(diagnostics))) = 0

\* the scan ends inside an unclosed loop of a function, no line being `inicio`
C17_Witness ==
  /\ ppc = "done"
  /\ ~hasInicio
  /\ currentFunction # None
  /\ Len(blockStack) >= 2
  /\ indentLevel >= 2
  /\ Len(MissingInicio(diagnostics)) = 1

\* ------------------------------------------------------------ scope bodies
\* the statement lists the parser fills: mainBody, then each function's body
ScopeBodies == <<mainBody>> \o [i \in 1 .. Len(functions) |-> functions[i].body]

ScopeBodiesNext == <<mainBody'>> \o [i \in 1 .. Len(functions') |-> functions'[i].body]

\* the position in ScopeBodies of the body a statement of this line goes to:
\* the active function's, otherwise the main body
TargetBody == IF currentFunction # None THEN currentFunction + 1 ELSE 1

StoredLines(body) == {body[k].line : k \in 1 .. Len(body)}

\* C18: every statement the parser stores is appended to exactly one body,
\* the active function's when a function is active and otherwise the main
\* body, never to both; it carries its 1-based source line, and the lines
\* within each body are strictly increasing.
C18_StoredOnceInActiveScope ==
  /\ [](\A b \in 1 .. Len(ScopeBodies) :
          /\ \A k \in 1 .. Len(ScopeBodies[b]) : ScopeBodies[b][k].line \in 1 .. lineIdx
          /\ \A j, k \in 1 .. Len(ScopeBodies[b]) :
                j < k => ScopeBodies[b][j].line < ScopeBodies[b][k].line
          /\ \A c \in 1 .. Len(ScopeBodies) :
                b # c => StoredLines(ScopeBodies[b]) \cap StoredLines(ScopeBodies[c]) = {})
  /\ [][\A b \in 1 .. Len(ScopeBodiesNext) :
          IF b > Len(ScopeBodies) THEN ScopeBodiesNext[b] = <<>>
          ELSE \/ ScopeBodiesNext[b] = ScopeBodies[b]
               \/ /\ b = TargetBody
                  /\ Len(ScopeBodiesNext[b]) = Len(ScopeBodies[b]) + 1
                  /\ SubSeq(ScopeBodiesNext[b], 1, Len(ScopeBodies[b])) = ScopeBodies[b]
                  /\ Last(ScopeBodiesNext[b]).line = lineIdx + 1
                  /\ lineIdx' = lineIdx + 1]_vars

\* two statements stored in the body of a function that encloses `inicio`,
\* the main body staying empty
C18_Witness ==
  /\ currentFunction # None
  /\ inMain
  /\ mainBody = <<>>
  /\ Len(functions[currentFunction].body) = 2
  /\ Last(functions[currentFunction].body).line = lineIdx

\* ---------------------------------------------------------- scope variables
\* the scopes of the program in slot order: main, then the functions
VScopes ==
  <<[key |-> "main", params |-> << >>, body |-> vMain, vars |-> vOut.main]>>
  \o [i \in 1 .. Len(vFns) |->
        [key |-> ScopeKey(vFns[i].name), params |-> vFns[i].params,
         body |-> vFns[i].body, vars |-> vOut.functions[i].vars]]

\* the names a scope contributes, every occurrence, in source order
Contributed(sc) ==
  sc.params
  \o [k \in 1 .. Len(SelectSeq(sc.body, LAMBDA e : e.k \in {"leer", "leerArr", "arreglo", "para"})) |->
        SelectSeq(sc.body, LAMBDA e : e.k \in {"leer", "leerArr", "arreglo", "para"})[k].n]

FirstAt(seq, name) == CHOOSE k \in 1 .. Len(seq) : seq[k] = name /\ \A j \in 1 .. k - 1 : seq[j] # name

\* number of slots before those of the i-th scope
RECURSIVE SlotsBefore(_)
SlotsBefore(i) == IF i = 1 THEN 0 ELSE SlotsBefore(i - 1) + Len(VScopes[i - 1].vars)

\* C19: for each scope buildScopeVars yields the distinct names contributed
\* by the parameters (first), the read targets (the base name of a
\* subscript), the array declarations and the loop counters, in order of
\* first appearance, each once; the slot list is the names of main followed
\* by the names of each function in function order.
C19_ScopeNamesInFirstAppearanceOrder ==
  vpc = "built" =>
    /\ Len(vOut.functions) = Len(vFns)
    /\ \A i \in 1 .. Len(VScopes) :
         LET sc == VScopes[i]
             c == Contributed(sc)
         IN /\ {sc.vars[k] : k \in 1 .. Len(sc.vars)} = {c[k] : k \in 1 .. Len(c)}
            /\ \A j, k \in 1 .. Len(sc.vars) :
                 j < k => FirstAt(c, sc.vars[j]) < FirstAt(c, sc.vars[k])
            /\ \A k \in 1 .. Len(sc.vars) :
                 vOut.variableSlots[SlotsBefore(i) + k] =
                   [label |-> sc.vars[k], scope |-> sc.key, name |-> sc.vars[k]]
    /\ Len(vOut.variableSlots) = SlotsBefore(Len(VScopes) + 1)

\* f(x, p) reads p, then x: its names stay x, p; main and g follow with
\* names of their own
C19_Witness ==
  /\ vpc = "built"
  /\ Len(vFns) = 2
  /\ vFns[1].params = <<"x", "p">>
  /\ Len(vFns[1].body) = 2
  /\ vFns[1].body[1].k = "leer" /\ vFns[1].body[1].n = "p"
  /\ vFns[1].body[2].k = "para" /\ vFns[1].body[2].n = "x"
  /\ vOut.functions[1].vars = <<"x", "p">>
  /\ vFns[2].params = <<"p", "p">>
  /\ vOut.functions[2].vars = <<"p">>
  /\ vOut.main = <<"a">>
  /\ Len(vOut.variableSlots) = 4

\* ------------------------------------------------------------ argument lists
\* the character at position i follows a backslash that escapes it
RECURSIVE EscapedAt(_, _)
EscapedAt(t, i) == i > 1 /\ t[i - 1] = "\\" /\ ~EscapedAt(t, i - 1)

\* position i lies inside double-quoted text: an odd number of double quotes
\* that are not escaped precede it
RECURSIVE QuotedAt(_, _)
QuotedAt(t, i) ==
  IF i = 1 THEN FALSE
  ELSE IF t[i - 1] = "\"" /\ ~EscapedAt(t, i - 1) THEN ~QuotedAt(t, i - 1)
  ELSE QuotedAt(t, i - 1)

SeparatorAt(t, i) == t[i] = "," /\ ~QuotedAt(t, i) /\ ~EscapedAt(t, i)

\* the pieces of t between separators, from position i on; the current piece
\* starts at position from
RECURSIVE PiecesFrom(_, _, _)
PiecesFrom(t, i, from) ==
  IF i > Len(t) THEN << SubSeq(t, from, Len(t)) >>
  ELSE IF SeparatorAt(t, i) THEN << SubSeq(t, from, i - 1) >> \o PiecesFrom(t, i + 1, i + 1)
  ELSE PiecesFrom(t, i + 1, from)

\* the pieces trimmed, in order, the empty ones left out
TrimmedPieces(t) ==
  SelectSeq([k \in 1 .. Len(PiecesFrom(t, 1, 1)) |-> Trim(PiecesFrom(t, 1, 1)[k])],
            LAMBDA piece : piece # << >>)

\* C20: parseArguments splits the text at the commas that are outside
\* double-quoted text and not escaped by a backslash, an escaped double quote
\* neither opening nor closing quoted text, and returns the pieces trimmed,
\* in source order, without the empty ones.
C20_SplitAtTopLevelCommas ==
  /\ apc = "scan" =>
       /\ aInString = QuotedAt(aText, aI + 1)
       /\ aEscaped = EscapedAt(aText, aI + 1)
       /\ Len(aArgs) <= Cardinality({i \in 1 .. aI : SeparatorAt(aText, i)})
  /\ apc = "done" => aArgs = TrimmedPieces(aText)

\* the text `"\",a`: the escaped quote leaves the quoted text open, so the
\* comma is kept and one argument is returned
C20_Witness ==
  /\ apc = "done"
  /\ Len(aText) >= 4
  /\ aText[1] = "\"" /\ aText[2] = "\\" /\ aText[3] = "\"" /\ aText[4] = ","
  /\ aArgs = << aText >>

\* -------------------------------------------------------- array declarations
\* the C declaration the documentation gives for each type
DocumentedC(type, name, size) ==
  [cType |-> IF type \in {"entero", "booleano"} THEN "int" ELSE "char",
   name |-> name,
   size |-> size,
   elemSize |-> IF type = "cadena" THEN "[100]" ELSE ""]

\* C21: an array declaration is emitted in C as `int nombre[n];` for entero,
\* `char nombre[n][100];` for cadena, `char nombre[n];` for caracter and
\* `int nombre[n];` for booleano.
C21_ArrayDeclaredWithDocumentedCType ==
  dC # << >> => dC = << DocumentedC(dType, dName, dSize) >>

Reserved == {"<", ">", "[", "]", "{", "}", "\""}

\* the text has the characters of the entity from position i on
EntityAt(text, i, entity) ==
  /\ i + Len(entity) - 1 <= Len(text)
  /\ SubSeq(text, i, i + Len(entity) - 1) = entity

\* C23: the sanitized label holds none of < > [ ] { } " and every & in it
\* begins one of the entities &amp; &lt; &gt; &quot;.
C23_LabelHasNoReservedCharacter ==
  spc = Len(Passes) =>
    \A i \in 1 .. Len(sText) :
       /\ sText[i] \notin Reserved
       /\ sText[i] = "&" => \E entity \in {Amp, Lt, Gt, Quot} : EntityAt(sText, i, entity)

\* the label `&<"` becomes `&amp;&lt;&quot;`
C23_Witness ==
  /\ spc = Len(Passes)
  /\ sLabel = <<"&", "<", "\"">>
  /\ sText = Amp \o Lt \o Quot

\* ------------------------------------------------------ statement shapes
\* the statement shapes other than the call-like fallback
Shapes ==
  {"mientras", "finmientras", "para", "finpara", "repetir", "hasta", "si", "arreglo",
   "entonces", "sino", "finsi", "leer", "escribir", "volver"}

Matching(t) == {kind \in Shapes : Matches(kind, t)}

Tests(consumer) == {OrderOf(consumer)[k] : k \in 1 .. Len(OrderOf(consumer))}

\* the kind of the line for a consumer, whatever the order of its tests
KindFor(consumer, t) ==
  IF Matching(t) \cap Tests(consumer) # {}
  THEN CHOOSE kind \in Matching(t) \cap Tests(consumer) : TRUE
  ELSE IF "llamada" \in Tests(consumer) /\ isCallLike(t) THEN "llamada"
  ELSE "otro"

\* C24: at most one statement recognizer matches a line, the call-like
\* shape being a fallback only, so the parser, the flow builders and both
\* emitters, whose tests come in different orders, see the same kind.
C24_OneShapePerLine ==
  /\ kStep # None => Cardinality(Matching(kLine)) <= 1
  /\ kStep = Len(Consumers) =>
       /\ \A k \in 1 .. Len(Consumers) :
            kSeen[Consumers[k]] = KindFor(Consumers[k], kLine)
       /\ \A j, k \in 1 .. Len(Consumers) :
            kSeen[Consumers[j]] \in Tests(Consumers[k]) =>
              kSeen[Consumers[k]] = kSeen[Consumers[j]]

\* `mientras (x)` is call-like too, and every consumer sees a mientras
C24_Witness ==
  /\ kStep = Len(Consumers)
  /\ kLine = <<"mientras", Blank, "(", "x", ")">>
  /\ isCallLike(kLine)
  /\ \A k \in 1 .. Len(Consumers) : kSeen[Consumers[k]] = "mientras"

\* ---- mismatched closers ----

\* the kind of the frame on top of the block stack, "" when it is empty
TopType == IF blockStack = <<>> THEN "" ELSE Last(blockStack).type

\* the closers that report a mismatch of their own, and the opener of each
OwnOpener ==
  [finmientras |-> "mientras", finpara |-> "para", hasta |-> "repetir", finsi |-> "si"]

\* C25: finmientras, finpara, hasta(...) or finsi met when the top frame is
\* of another kind, or the stack is empty, adds exactly one error, for that
\* line; the closer is appended to no body, indentLevel keeps its value and
\* the scan goes on with the next line.
C25_MismatchedCloserOnlyReports ==
  [][\A kind \in DOMAIN OwnOpener :
       (ScanLine(kind) /\ TopType # OwnOpener[kind]) =>
         /\ Len(diagnostics') = Len(diagnostics) + 1
         /\ SubSeq(diagnostics', 1, Len(diagnostics)) = diagnostics
         /\ Last(diagnostics').severity = "error"
         /\ Last(diagnostics').line = lineIdx
         /\ IsMismatch(Last(diagnostics'))
         /\ functions' = functions
         /\ mainBody' = mainBody
         /\ indentLevel' = indentLevel
         /\ ppc' = "scan"
         /\ lineIdx' = lineIdx + 1]_vars

\* a finpara met inside an open mientras of the main section was reported,
\* left out of the body, and the line after it was still scanned and stored
C25_Witness ==
  /\ \E k \in DiagIdx : diagnostics[k].message = "Hay un finpara sin para"
                        /\ diagnostics[k].line = 2
  /\ indentLevel = 2
  /\ Len(mainBody) = 2
  /\ mainBody[1].text = "mientras"
  /\ mainBody[2].line = 4
  /\ lineIdx = 4

\* ---- the generic closer ----

\* what a `fin` line does to the scope, given the new value of indentLevel
\* after a `fin` that closes a function or the main section
FinEffect(lowered) ==
     (ScanLine("fin") =>
       /\ TopType = "funcion" =>
            currentFunction' = None /\ inMain' = inMain /\ indentLevel' = lowered
       /\ TopType = "inicio" =>
            inMain' = FALSE /\ currentFunction' = currentFunction
            /\ indentLevel' = lowered
       /\ TopType \notin {"funcion", "inicio"} =>
            /\ Len(diagnostics') = Len(diagnostics) + 1
            /\ Last(diagnostics').severity = "error"
            /\ Last(diagnostics').line = lineIdx
            /\ currentFunction' = currentFunction
            /\ inMain' = inMain
            /\ indentLevel' = indentLevel)

\* C26 as stated: a `fin` on a function frame clears the active function,
\* on the main frame clears the in-main flag, and in both cases lowers
\* indentLevel by one; on an empty stack or any other frame it reports an
\* error and changes none of the three.
C26_FinLowersByOne == [][FinEffect(indentLevel - 1)]_vars

\* C26: a `fin` on a function frame clears the active function, on the
\* main frame clears the in-main flag, and in both cases lowers indentLevel
\* by one, or leaves it at zero when it is zero already; on an empty stack
\* or any other frame it reports an error and changes none of the three.
C26_FinLowersByOneNotBelowZero ==
  [][FinEffect(IF indentLevel = 0 THEN 0 ELSE indentLevel - 1)]_vars

\* `funcion f()`, `si x`, `finsi`, `fin`: the finsi took indentLevel from
\* two to zero, and the fin closed the function there
C26_Witness ==
  /\ lineIdx = 4
  /\ Len(functions) = 1
  /\ Len(functions[1].body) = 2
  /\ functions[1].body[1].text = "si"
  /\ functions[1].body[2].text = "finsi"
  /\ currentFunction = None
  /\ blockStack = <<>>
  /\ indentLevel = 0
  /\ diagnostics = <<>>

\* ---- expected indentation ----

\* the line just scanned was given an indentation error
IndentError ==
  \E k \in Len(diagnostics) + 1 .. Len(diagnostics') :
    diagnostics'[k].message = "Se esperaban espacios"

\* the step is the parse of the given line
Parsed(l) == PState' = ParseLine(PState, l[1], l[2], l[3], lineIdx)

\* sino and the closers other than finsi
OneLessKinds == {"sino", "finmientras", "finpara", "hasta", "fin"}

\* C27 as stated: a line is expected at indentLevel units of two spaces,
\* `sino` and every closer, finsi included, at one unit less; it gets an
\* indentation error exactly when its leading spaces are not that many.
C27_ClosersExpectOneLess ==
  [][\A l \in IndentLines :
       Parsed(l) =>
         (IndentError <=>
            l[2] # 2 * (IF l[1] \in OneLessKinds \cup {"finsi"}
                        THEN indentLevel - 1 ELSE indentLevel))]_vars

\* C27: a line is expected at indentLevel units of two spaces, `sino` and
\* the closers finmientras, finpara, hasta(...) and fin at one unit less,
\* finsi at two units less, never at less than zero; it gets an indentation
\* error exactly when its leading spaces are not that many.
C27_ExpectedIndentation ==
  [][\A l \in IndentLines :
       Parsed(l) =>
         LET units == IF l[1] = "finsi" THEN indentLevel - 2
                      ELSE IF l[1] \in OneLessKinds THEN indentLevel - 1
                      ELSE indentLevel
         IN IndentError <=> l[2] # 2 * (IF units < 0 THEN 0 ELSE units)]_vars

\* `inicio`, `  si x`, `finsi` at the margin: the finsi came at level two
\* and was accepted with no leading space
C27_Witness ==
  /\ lineIdx = 3
  /\ Len(mainBody) = 2
  /\ mainBody[1].text = "si"
  /\ mainBody[2].text = "finsi"
  /\ indentLevel = 0
  /\ diagnostics = <<>>

\* ---- how closers and `sino` move indentLevel ----

\* a closer met on a frame of its own kind, and a `sino` met with a
\* conditional open somewhere on the stack
MatchedOne(kind) ==
  \/ kind \in {"finmientras", "finpara", "hasta"} /\ TopType = OwnOpener[kind]
  \/ kind = "fin" /\ TopType \in {"funcion", "inicio"}
AcceptedSino == \E k \in 1 .. Len(blockStack) : blockStack[k].type = "si"

\* C28 as stated: a matched finsi lowers indentLevel by exactly two, a
\* matched finmientras, finpara, hasta(...) or fin by exactly one, and an
\* accepted `sino` leaves it as it is, in every reachable state.
C28_ExactDrops ==
  [][/\ (ScanLine("finsi") /\ TopType = "si") => indentLevel' = indentLevel - 2
     /\ \A kind \in {"finmientras", "finpara", "hasta", "fin"} :
          (ScanLine(kind) /\ MatchedOne(kind)) => indentLevel' = indentLevel - 1
     /\ (ScanLine("sino") /\ AcceptedSino) => indentLevel' = indentLevel]_vars

\* C28: a matched finsi lowers indentLevel by two, a matched finmientras,
\* finpara, hasta(...) or fin by one, neither below zero, and an accepted
\* `sino` leaves it as it is, except that it raises it from zero to one.
C28_DropsNotBelowZero ==
  [][/\ (ScanLine("finsi") /\ TopType = "si") =>
          indentLevel' = (IF indentLevel < 2 THEN 0 ELSE indentLevel - 2)
     /\ \A kind \in {"finmientras", "finpara", "hasta", "fin"} :
          (ScanLine(kind) /\ MatchedOne(kind)) =>
            indentLevel' = (IF indentLevel < 1 THEN 0 ELSE indentLevel - 1)
     /\ (ScanLine("sino") /\ AcceptedSino) =>
          indentLevel' = (IF indentLevel = 0 THEN 1 ELSE indentLevel)]_vars

\* `inicio`, `si x`, `entonces`, `finsi`: the finsi took indentLevel from
\* three back to the level of the main section
C28_Witness ==
  /\ lineIdx = 4
  /\ Len(mainBody) = 3
  /\ mainBody[1].text = "si"
  /\ mainBody[2].text = "entonces"
  /\ mainBody[3].text = "finsi"
  /\ Len(blockStack) = 1
  /\ indentLevel = 1
  /\ diagnostics = <<>>

\* ---- openers ----

\* the frame kind each opener line stands for; a line that starts with
\* `funcion ` is an opener whether or not the rest of its header is valid
FrameOf ==
  [funcion |-> "funcion", funcionMal |-> "funcion", inicio |-> "inicio",
   mientras |-> "mientras", para |-> "para", repetir |-> "repetir", si |-> "si"]

\* C29: every opener line pushes exactly one frame of its kind and raises
\* indentLevel by exactly one, the two together, and a loop or conditional
\* opener is appended to the scope that was current before the push.
C29_OpenerPushesFrameAndIndents ==
  [][\A kind \in DOMAIN FrameOf :
       ScanLine(kind) =>
         /\ blockStack' = Append(blockStack, [type |-> FrameOf[kind], line |-> lineIdx])
         /\ indentLevel' = indentLevel + 1
         /\ kind \in {"mientras", "para", "repetir", "si"} =>
              LET e == [text |-> kind, line |-> lineIdx + 1]
              IN IF currentFunction # None
                 THEN /\ functions'[currentFunction].body =
                           Append(functions[currentFunction].body, e)
                      /\ mainBody' = mainBody
                 ELSE /\ functions' = functions
                      /\ inMain => mainBody' = Append(mainBody, e)]_vars

\* ---- finsi in the flow graph ----

\* the conditional a finsi closes, and the node at which the branch that is
\* open when the finsi comes ends: the node the next statement would chain
\* from
ClosedSi == Last(siStack)
BranchEnd == current

\* C30: finsi connects the last node of the primary branch to the join node
\* (the decision node, labelled si, when the branch made no node) and the
\* last node of the else branch to the join node (the decision node,
\* labelled no, when there is no else or it made no node), and the join
\* node becomes current; the last node of a branch is the node at which its
\* execution ends, also when it ends with a nested conditional or loop.
C30_FinsiJoinsBranchEnds ==
  [][(GFinsi /\ siStack # <<>>) =>
       /\ current' = ClosedSi.afterId
       /\ Len(edges') = Len(edges) + 2
       /\ SubSeq(edges', 1, Len(edges)) = edges
       /\ LET primary == edges'[Len(edges) + 1]
              other == edges'[Len(edges) + 2]
          IN /\ primary =
                  (IF ~ClosedSi.thenHas
                   THEN Edge(ClosedSi.condId, ClosedSi.afterId, "si")
                   ELSE IF ~ClosedSi.inElse
                   THEN Edge(BranchEnd, ClosedSi.afterId, "")
                   ELSE Edge(primary.from, ClosedSi.afterId, ""))
             /\ other =
                  (IF ~ClosedSi.elseHas
                   THEN Edge(ClosedSi.condId, ClosedSi.afterId, "no")
                   ELSE Edge(BranchEnd, ClosedSi.afterId, ""))]_vars

\* ---- chaining of statements in the flow graph ----

\* the innermost open construct that has a decision node of its own
RECURSIVE InnerDecision(_)
InnerDecision(open) ==
  IF open = <<>> THEN ""
  ELSE IF Last(open) = "repetir" THEN InnerDecision(Front(open))
  ELSE Last(open)

\* the label of the edge that leaves the node the next statement chains
\* from: that node is a decision node only as long as the body or branch it
\* opens has no node yet
ChainLabel ==
  IF nodes[current + 1].shape # "diamond" THEN ""
  ELSE IF InnerDecision(gOpen) = "sino" THEN "no" ELSE "si"

\* C31: the node of every statement is wired from the node at which the
\* statement or construct before it ends: from the decision node of a
\* pre-test loop, labelled si, when it is the first node of the loop body,
\* from the decision node of a conditional, labelled si or (after sino) no,
\* when it is the first node of a branch, and otherwise by a plain edge
\* from the preceding node, after-node or join node.
C31_StatementChainedFromPredecessor ==
  [][(GPlain \/ GSi \/ GMientras \/ GPara) =>
       edges' = Append(edges, Edge(current, Len(nodes), ChainLabel))]_vars

\* ---- closing a pre-test loop; the guard of mientras ----

\* the pre-test loop a finmientras / finpara closes
ClosedLoop == Last(loopStack)

\* C32: finmientras / finpara adds a back-edge from the node at which the
\* loop body ends (the decision node when the body is empty) to the
\* decision node of the loop and an edge labelled no from the decision node
\* to the after-node of the loop, and the after-node becomes current; the
\* instrumented loop header of mientras(c) carries c as written when c
\* holds no index.
C32_LoopClosedAndGuardKept ==
  /\ [][(GFinMientras \/ GFinPara) =>
          /\ nodes[ClosedLoop.condId + 1].shape = "diamond"
          /\ nodes[ClosedLoop.afterId + 1].label \in {"Fin mientras", "Fin para"}
          /\ edges' = edges \o
               << [from |-> current, to |-> ClosedLoop.condId, label |-> ""],
                  [from |-> ClosedLoop.condId, to |-> ClosedLoop.afterId, label |-> "no"] >>
          /\ current' = ClosedLoop.afterId]_vars
  /\ [](wpc = "emitted" /\ (\A k \in 1 .. Len(wCond) : wCond[k] # "[") =>
          wGuard = <<"while", "(">> \o wCond \o <<")", "{">>)

\* `mientras(c)`, a statement, `finmientras`: the statement N3 is wired
\* back to the decision node N1, which leaves by no to the after-node N2
C32_Witness ==
  /\ gLen = 3
  /\ Len(nodes) = 4
  /\ nodes[2].label = "Mientras"
  /\ edges = << Edge(0, 1, ""), Edge(1, 3, "si"), Edge(3, 1, ""), Edge(1, 2, "no") >>
  /\ current = 2
  /\ loopStack = <<>>

\* ---- repetir ... hasta(c) in the flow graph ----

\* the loop a hasta closes: its after-node was made by `repetir`, every node
\* of its body after that, and the decision node comes next
ClosedRepetir == Last(loopStack)
HastaId == Len(nodes)

\* the first node of the body: the first node made after the after-node
\* that is not the after-node of a repetir nested at the start of the body;
\* the decision node itself when the body made none
BodyEntry ==
  LET made == {n \in ClosedRepetir.afterId + 1 .. HastaId - 1 :
                 nodes[n + 1].label # "Fin repetir"}
  IN IF made = {} THEN HastaId
     ELSE CHOOSE n \in made : \A m \in made : n <= m

\* C33: wherever a repetir loop stands, also first in a branch or in another
\* loop, hasta(c) makes a decision node, connects the last node of the body
\* to it, adds an edge labelled no from it back to the first node of the
\* body and an edge labelled si to the after-node, which becomes current.
C33_HastaLoopsBackToFirstBodyNode ==
  [][GHasta =>
       /\ Len(nodes') = Len(nodes) + 1
       /\ nodes'[HastaId + 1].shape = "diamond"
       /\ edges' = edges \o
            << Edge(current, HastaId, ""),
               Edge(HastaId, BodyEntry, "no"),
               Edge(HastaId, ClosedRepetir.afterId, "si") >>
       /\ current' = ClosedRepetir.afterId]_vars

\* ---- the counted loop with descending bounds ----

\* C34: the plain emitter's loop for `para v desde S hasta E hacer` only
\* counts upwards, whatever the bounds; with S > E its body runs zero times,
\* while the body of the instrumented loop runs S - E + 1 times.
C34_DescendingRangeSkippedInC ==
  /\ \A k \in 1 .. Len(lvals["c"]) - 1 : lvals["c"][k + 1] = lvals["c"][k] + 1
  /\ loopS > loopE =>
       /\ lvals["c"] = <<>>
       /\ lpc["c"] \in {"init", "test", "done"}
       /\ Len(lvals["js"]) <= loopS - loopE + 1
       /\ lpc["js"] = "done" => Len(lvals["js"]) = loopS - loopE + 1

\* `para v desde 3 hasta 1 hacer`: both emitted loops have ended, the C
\* one without a run of its body, the instrumented one after three
C34_Witness ==
  /\ loopS = 3
  /\ loopE = 1
  /\ lpc["c"] = "done"
  /\ lvals["c"] = <<>>
  /\ lpc["js"] = "done"
  /\ lvals["js"] = <<3, 2, 1>>

\* ---- scope flags and the nesting stack ----

OnStack(type) == \E k \in 1 .. Len(blockStack) : blockStack[k].type = type

\* C35: at every point of the scan a function is active exactly when a
\* funcion frame is on the stack, and the in-main flag is set exactly when
\* an inicio frame is on the stack.
C35_ScopeFlagsMirrorStack ==
  ppc = "scan" =>
    /\ (currentFunction # None) <=> OnStack("funcion")
    /\ inMain <=> OnStack("inicio")

\* ---- what becomes of a pushed frame ----

\* the closer of the line fits the frame on top of the stack
ClosesOwnKind(kind) ==
  \/ kind = "finsi" /\ TopType = "si"
  \/ MatchedOne(kind)

\* C36: a frame leaves the stack only through a closer of its own kind, and
\* every frame still on the stack at the end of the scan is reported by an
\* unclosed-block error of its line.
C36_FrameClosedOrReported ==
  [][/\ \A kind \in {"finmientras", "finpara", "hasta", "finsi", "fin"} :
          (ScanLine(kind) /\ blockStack' # blockStack) => ClosesOwnKind(kind)
     /\ PEndScan =>
          \A k \in 1 .. Len(blockStack) :
            \E j \in Len(diagnostics) + 1 .. Len(diagnostics') :
              IsUnclosed(diagnostics'[j]) /\ diagnostics'[j].line = blockStack[k].line]_vars

\* ---- the edges that leave a decision node ----

OutEdges(n) == {k \in 1 .. Len(edges) : edges[k].from = n}

\* C37: in the finished graph of a valid main body every decision node has
\* exactly two outgoing edges, one labelled si and one labelled no.
C37_DecisionHasSiAndNo ==
  gpc = "done" =>
    \A n \in NodeIds :
      nodes[n + 1].shape = "diamond" =>
        /\ Cardinality(OutEdges(n)) = 2
        /\ \E k \in OutEdges(n) : edges[k].label = "si"
        /\ \E k \in OutEdges(n) : edges[k].label = "no"

\* ---- evaluating a snapshot ----

\* C38: every variable a trace snapshot reads is declared and initialised
\* where the snapshot is evaluated, so that no __trace call of the
\* instrumented code ends in a reference error.
C38_SnapshotNeverThrows ==
  [][TTraceCall => tpc' # "threw"]_vars

\* ---- entonces and sino outside a conditional ----

\* C39: a line `entonces` or `sino` is accepted without a diagnostic only
\* when the innermost open block is a `si`; under any other innermost block
\* (a loop, a function, the main section, or none) it is reported as an
\* error and appended to no body.
C39_BranchNeedsInnermostSi ==
  [][\A kind \in {"entonces", "sino"} :
       ScanLine(kind) =>
         IF TopType = "si"
         THEN diagnostics' = diagnostics
         ELSE /\ Len(diagnostics') = Len(diagnostics) + 1
              /\ SubSeq(diagnostics', 1, Len(diagnostics)) = diagnostics
              /\ Last(diagnostics').severity = "error"
              /\ Last(diagnostics').line = lineIdx
              /\ functions' = functions
              /\ mainBody' = mainBody]_vars

\* ---- a run suspended on a read ----

\* C40: while a run is suspended on a pending read, every event other than
\* an input submission (a Run or a Clear request) leaves the console, the
\* stored promise, the stored resolver, the runs and the reads as they are:
\* the run stays in flight until a value is submitted.
C40_SuspendedUntilSubmitted ==
  [][(waitingResolver # None /\ lastEvent' # "submit") =>
       /\ UNCHANGED RunnerState
       /\ runnerPromise' # None
       /\ InFlight' = InFlight /\ InFlight # {}]_vars

\* a Clear request was ignored while a run that has already written and
\* been resumed once waits for its next input
C40_Witness ==
  /\ lastEvent = "clear" /\ lastOutcome = "ignored"
  /\ waitingResolver # None /\ runnerPromise # None
  /\ Len(console) >= 2
  /\ \E i \in 1 .. Len(reads) :
       reads[i].state = "resolved" /\ reads[i].run = runnerPromise
====
